---- MODULE Spec2Model ----
(***************************************************************************)
(* Conversation lifecycle and risk engine of the WhatsApp control tower    *)
(* (backend/app/main.py, services.py, wasender.py).                        *)
(*                                                                         *)
(* Time is counted in seconds.  A datetime is an integer number of         *)
(* seconds, None is NULL.  The message table is a bag (the order of rows   *)
(* is never read by the code: every query filters or sorts by ts).         *)
(* A client is identified by its normalised phone, so the clients table    *)
(* (one row per phone, created on first sight) is not a variable.          *)
(***************************************************************************)
EXTENDS Integers, Sequences, FiniteSets, Bags, TLC

VARIABLES convs, msgs, now, ops, last, sessions, sync

vars == <<convs, msgs, now, ops, last, sessions, sync>>

(***************************************************************************)
(* Bounds of the model.                                                    *)
(***************************************************************************)
MaxStamp == 2
MaxOps == 3
MaxRiskStamp == 5

\* Grain of the timestamps of the engine specification: 31 minutes, so that
\* one step exceeds the first-reply SLA and two steps the follow-up SLA.
StampStep == 31 * 60
Stamps == {k * StampStep : k \in 0..MaxStamp}

(***************************************************************************)
(* Enumerations and constants of the program.                              *)
(***************************************************************************)
NULL == -1
NONE == "None"

ConversationStatus ==
    {"NEW", "CONTACTED", "INTERESTED", "NEGOTIATION", "CLOSED", "SUPPORT", "REENGAGEMENT"}
MessageSender == {"USER", "BOT", "AGENT"}
SentimentLabel == {"POSITIVE", "NEUTRAL", "NEGATIVE"}

SLA_OVERDUE_NEW_MINUTES == 15
SLA_OVERDUE_FOLLOW_UP_MINUTES == 60

NoFirstReply == "Sin primera respuesta"
StaleFollowUp == "Seguimiento congelado"
NegativeSentiment == "Sentimiento negativo"
Reopened == "Caso reabierto"

\* Inputs of the engine specification.
Phones == {"573001"}
Texts == {"hola"}
Pmids == {"m1", "m2"}
SyncPmids == {"m1"}
MockProviders == {"mock"}
MockPmids == {"m1"}
PushResults == {"m1", "error"}
PatchStatuses == {"NEW", "CONTACTED", "CLOSED"}


(***************************************************************************)
(* Conversation rows.  created_at, outcome, assigned_agent_id and the      *)
(* summary's contents are not read by any modelled operation and are left  *)
(* out; summary_json is kept as "a summary is cached or not".              *)
(* risk_reasons None and [] are both <<>> (every reader uses `or []`).     *)
(***************************************************************************)
_create_conversation(client, t) ==
    [client |-> client,
     status |-> "NEW",
     updated_at |-> t,
     closed_at |-> NULL,
     reopened_count |-> 0,
     last_message_at |-> t,
     first_user_message_at |-> NULL,
     first_agent_reply_at |-> NULL,
     last_agent_reply_at |-> NULL,
     has_summary |-> FALSE,
     sentiment_label |-> NONE,
     sentiment_score |-> NULL,
     tags |-> <<>>,
     risk_flag |-> FALSE,
     risk_reasons |-> <<>>]

\* services.py _recalc_risk: ages are (now - t).total_seconds() / 60, a float,
\* compared with the threshold in minutes; seconds / 60 > m iff seconds > 60 * m.
StaleStatuses == {"CONTACTED", "INTERESTED", "NEGOTIATION", "REENGAGEMENT", "SUPPORT"}

\* `if conv.first_user_message_at and not conv.first_agent_reply_at: age > SLA`.
first_reply_overdue(conv, t) ==
    /\ conv.first_user_message_at # NULL
    /\ conv.first_agent_reply_at = NULL
    /\ (t - conv.first_user_message_at) > SLA_OVERDUE_NEW_MINUTES * 60

follow_up_stale_any_status(conv, t) ==
    /\ conv.last_agent_reply_at # NULL
    /\ (t - conv.last_agent_reply_at) > SLA_OVERDUE_FOLLOW_UP_MINUTES * 60

\* `if conv.status in {...} and conv.last_agent_reply_at: stale > SLA`.
follow_up_stale(conv, t) ==
    /\ conv.status \in StaleStatuses
    /\ conv.last_agent_reply_at # NULL
    /\ (t - conv.last_agent_reply_at) > SLA_OVERDUE_FOLLOW_UP_MINUTES * 60

initial_reasons_kept(conv) == conv.risk_reasons

\* `reasons: list[str] = []`.
initial_reasons(conv) == <<>>

risk_flag_of_sla(reasons) ==
    \E i \in 1..Len(reasons) : reasons[i] \in {NoFirstReply, StaleFollowUp}

\* `conv.risk_flag = bool(reasons)`.
risk_flag_of(reasons) == reasons # <<>>

_recalc_risk_sla_only(conv, t) ==
    LET r1 == IF first_reply_overdue(conv, t) THEN <<NoFirstReply>> ELSE <<>>
        r2 == IF follow_up_stale(conv, t) THEN <<StaleFollowUp>> ELSE <<>>
    IN  [conv EXCEPT !.risk_reasons = r1 \o r2, !.risk_flag = risk_flag_of(r1 \o r2)]

_recalc_risk(conv, t) ==
    LET r1 == IF first_reply_overdue(conv, t) THEN <<NoFirstReply>> ELSE <<>>
        r2 == IF follow_up_stale(conv, t) THEN <<StaleFollowUp>> ELSE <<>>
        r3 == IF conv.sentiment_label = "NEGATIVE" THEN <<NegativeSentiment>> ELSE <<>>
        r4 == IF conv.reopened_count > 0 THEN <<Reopened>> ELSE <<>>
        reasons == initial_reasons(conv) \o r1 \o r2 \o r3 \o r4
    IN  [conv EXCEPT !.risk_reasons = reasons, !.risk_flag = risk_flag_of(reasons)]

\* main.py _minutes_between / _minutes_without_reply: whole minutes, floored,
\* clamped at zero (\div floors, as Python's // does).
_minutes_between(earlier, later) ==
    IF earlier = NULL \/ later = NULL THEN NULL
    ELSE LET minutes == (later - earlier) \div 60
         IN  IF minutes < 0 THEN 0 ELSE minutes

is_newest_message_always(conv, message_ts) == TRUE

\* `is_newest_message = conv.last_message_at is None or message_ts >= conv.last_message_at`.
is_newest_message(conv, message_ts) ==
    conv.last_message_at = NULL \/ message_ts >= conv.last_message_at

reopen_uncounted(conv) ==
    [conv EXCEPT !.status = "REENGAGEMENT", !.closed_at = NULL]

reopen_keeping_closed_at(conv) ==
    [conv EXCEPT !.status = "REENGAGEMENT", !.reopened_count = @ + 1]

reopen_counted_twice(conv) ==
    [conv EXCEPT !.status = "REENGAGEMENT", !.closed_at = NULL, !.reopened_count = @ + 2]

\* The body of the reopen branch of _apply_message_to_conversation.
reopen(conv) ==
    [conv EXCEPT !.status = "REENGAGEMENT", !.closed_at = NULL, !.reopened_count = @ + 1]

advance_assigned(current, message_ts) == message_ts

\* `if current is None or message_ts > current: current = message_ts`.
advance(current, message_ts) ==
    IF current = NULL \/ message_ts > current THEN message_ts ELSE current

earliest_first_seen(current, message_ts) ==
    IF current = NULL THEN message_ts ELSE current

\* `if current is None or message_ts < current: current = message_ts`.
earliest(current, message_ts) ==
    IF current = NULL \/ message_ts < current THEN message_ts ELSE current

_apply_message_reopening_any(conv, sender, message_ts, t) ==
    LET c1 == IF conv.status = "CLOSED" /\ is_newest_message(conv, message_ts)
              THEN reopen(conv)
              ELSE conv
    IN  [c1 EXCEPT !.last_message_at = advance(@, message_ts), !.updated_at = t]

_apply_message_first_reply_unguarded(conv, sender, message_ts, t) ==
    LET c1 == IF sender = "USER" /\ conv.status = "CLOSED" /\ is_newest_message(conv, message_ts)
              THEN reopen(conv)
              ELSE conv
        c2 == IF sender = "USER"
              THEN [c1 EXCEPT !.first_user_message_at = earliest(@, message_ts)]
              ELSE c1
        c3 == IF sender = "AGENT"
              THEN [c2 EXCEPT !.first_agent_reply_at = earliest(@, message_ts)]
              ELSE c2
    IN  [c3 EXCEPT !.last_message_at = advance(@, message_ts), !.updated_at = t]

\* main.py _apply_message_to_conversation; t is _utcnow().
_apply_message_to_conversation(conv, sender, message_ts, t) ==
    LET c1 == IF sender = "USER" /\ conv.status = "CLOSED" /\ is_newest_message(conv, message_ts)
              THEN reopen(conv)
              ELSE conv
        c2 == IF sender = "USER"
              THEN [c1 EXCEPT !.first_user_message_at = earliest(@, message_ts)]
              ELSE c1
        c3 == IF /\ sender = "AGENT"
                 /\ c2.first_user_message_at # NULL
                 /\ (c2.first_agent_reply_at = NULL \/ message_ts < c2.first_agent_reply_at)
              THEN [c2 EXCEPT !.first_agent_reply_at = message_ts]
              ELSE c2
        c4 == IF sender = "AGENT"
              THEN [c3 EXCEPT !.last_agent_reply_at = advance(@, message_ts)]
              ELSE c3
        c5 == [c4 EXCEPT !.last_message_at = advance(@, message_ts)]
    IN  [c5 EXCEPT !.updated_at = t]

(***************************************************************************)
(* The database seen by one request: db.convs (rows, the index is the id), *)
(* db.msgs (bag of message rows) and db.apps, the log of the calls of      *)
(* _append_message the request has made (conversation before and after).   *)
(***************************************************************************)
Message(cid, sender, text, ts, provider, pmid) ==
    [conversation_id |-> cid, sender |-> sender, text |-> text, ts |-> ts,
     provider |-> provider, provider_message_id |-> pmid]

_append_message_replacing(db, cid, sender, text, ts, provider, pmid, t) ==
    LET before == db.convs[cid]
        after == _recalc_risk(_apply_message_to_conversation(before, sender, ts, t), t)
    IN  [convs |-> [db.convs EXCEPT ![cid] = after],
         msgs |-> SetToBag({Message(cid, sender, text, ts, provider, pmid)}),
         apps |-> Append(db.apps,
                         [conv |-> cid, sender |-> sender, ts |-> ts,
                          pre |-> before, post |-> after])]

\* main.py _append_message: insert, apply, recalc, commit.
_append_message(db, cid, sender, text, ts, provider, pmid, t) ==
    LET before == db.convs[cid]
        after == _recalc_risk(_apply_message_to_conversation(before, sender, ts, t), t)
    IN  [convs |-> [db.convs EXCEPT ![cid] = after],
         msgs |-> db.msgs (+) SetToBag({Message(cid, sender, text, ts, provider, pmid)}),
         apps |-> Append(db.apps,
                         [conv |-> cid, sender |-> sender, ts |-> ts,
                          pre |-> before, post |-> after])]

\* main.py _message_exists: the provider-id lookup, and when it finds nothing
\* (or there is no id) the lookup by (conversation, sender, text, ts).
_message_exists(stored, cid, provider, pmid, sender, text, ts) ==
    LET rows == BagToSet(stored)
        existing == \E m \in rows : /\ m.conversation_id = cid
                                    /\ m.provider = provider
                                    /\ m.provider_message_id = pmid
    IN  IF pmid # NONE /\ existing THEN TRUE
        ELSE \E m \in rows : /\ m.conversation_id = cid
                             /\ m.sender = sender
                             /\ m.text = text
                             /\ m.ts = ts

SetMin(S) == CHOOSE x \in S : \A y \in S : x <= y
SetMax(S) == CHOOSE x \in S : \A y \in S : x >= y

\* main.py _find_open_conversation: the first non-closed conversation of the
\* client by last_message_at descending; 0 when there is none.  SQL leaves the
\* order of rows with equal last_message_at to the query plan: tb is the plan's
\* choice among them, oldest row first or newest row first.  Two open
\* conversations of one client take four requests (open, close, open, reopen
\* by patch), so within MaxOps requests no query ever meets such a tie.
PlanOrder == "oldest"

_find_open_conversation_any_status(cs, client, tb) ==
    LET all == {i \in 1..Len(cs) : cs[i].client = client}
        best == {i \in all : \A j \in all : cs[j].last_message_at <= cs[i].last_message_at}
    IN  IF all = {} THEN 0
        ELSE IF tb = "oldest" THEN SetMin(best) ELSE SetMax(best)

_find_open_conversation(cs, client, tb) ==
    LET open == {i \in 1..Len(cs) : cs[i].client = client /\ cs[i].status # "CLOSED"}
        best == {i \in open : \A j \in open : cs[j].last_message_at <= cs[i].last_message_at}
    IN  IF open = {} THEN 0
        ELSE IF tb = "oldest" THEN SetMin(best) ELSE SetMax(best)

\* `_find_open_conversation(...) or _create_conversation(..., now=t)`.
FindOrCreate(db, client, t, tb) ==
    LET found == _find_open_conversation(db.convs, client, tb)
    IN  IF found # 0 THEN [db |-> db, cid |-> found]
        ELSE [db |-> [db EXCEPT !.convs = Append(@, _create_conversation(client, t))],
              cid |-> Len(db.convs) + 1]

_ingest_provider_message_unchecked(db, pm, provider, t, tb) ==
    LET fc == FindOrCreate(db, pm.wa_id, pm.ts, tb)
    IN  _append_message(fc.db, fc.cid, pm.sender, pm.text, pm.ts,
                        provider, pm.provider_message_id, t)

\* main.py _ingest_provider_message.
_ingest_provider_message(db, pm, provider, t, tb) ==
    LET fc == FindOrCreate(db, pm.wa_id, pm.ts, tb)
    IN  IF _message_exists(fc.db.msgs, fc.cid, provider, pm.provider_message_id,
                           pm.sender, pm.text, pm.ts)
        THEN fc.db
        ELSE _append_message(fc.db, fc.cid, pm.sender, pm.text, pm.ts,
                             provider, pm.provider_message_id, t)

\* main.py _touch_chat_update.
_touch_chat_update(db, wa_id, ts, t, tb) ==
    LET fc == FindOrCreate(db, wa_id, ts, tb)
        conv == fc.db.convs[fc.cid]
    IN  IF conv.last_message_at < ts
        THEN [fc.db EXCEPT !.convs[fc.cid] =
                 _recalc_risk([conv EXCEPT !.last_message_at = ts, !.updated_at = t], t)]
        ELSE fc.db

(***************************************************************************)
(* Webhook batches.  A candidate node is given by the values the           *)
(* normaliser's field chains resolve to: counterpart, direction, text,     *)
(* timestamp (a payload without one resolves to the stamp `now`, which is  *)
(* one of Stamps) and provider message id (NONE when it carries none).     *)
(***************************************************************************)
Nodes ==
    [wa_id : Phones, sender : {"USER", "AGENT"}, text : Texts,
     ts : Stamps, provider_message_id : Pmids \cup {NONE}]

\* wasender.py parse_provider_timestamp, for a missing and for a numeric value.
parse_provider_timestamp(value, t) == IF value = NULL THEN t ELSE value

\* wasender.py normalize_provider_message on such a node.
normalize_provider_message(node, t) ==
    [wa_id |-> node.wa_id, text |-> node.text,
     ts |-> parse_provider_timestamp(node.ts, t),
     sender |-> node.sender, provider_message_id |-> node.provider_message_id]

\* `message.provider_message_id or f"{wa_id}|{sender}|{ts}|{text}"`.
DedupKey(pm) ==
    IF pm.provider_message_id # NONE
    THEN [id |-> pm.provider_message_id, wa_id |-> "", sender |-> "", ts |-> NULL, text |-> ""]
    ELSE [id |-> NONE, wa_id |-> pm.wa_id, sender |-> pm.sender, ts |-> pm.ts, text |-> pm.text]

RECURSIVE DedupBatch(_, _)
DedupBatch(items, seen) ==
    IF items = <<>> THEN <<>>
    ELSE LET key == DedupKey(Head(items))
         IN  IF key \in seen THEN DedupBatch(Tail(items), seen)
             ELSE <<Head(items)>> \o DedupBatch(Tail(items), seen \cup {key})

\* list.sort(key=ts) is stable: an item goes behind the items with ts <= its own.
RECURSIVE InsertByTs(_, _)
InsertByTs(item, sorted) ==
    IF sorted = <<>> THEN <<item>>
    ELSE IF Head(sorted).ts <= item.ts
         THEN <<Head(sorted)>> \o InsertByTs(item, Tail(sorted))
         ELSE <<item>> \o sorted

SortByTs_unsorted(items) == items

RECURSIVE SortByTs(_)
SortByTs(items) ==
    IF items = <<>> THEN <<>>
    ELSE InsertByTs(items[Len(items)], SortByTs(SubSeq(items, 1, Len(items) - 1)))

NormalizeAll(nodes, t) == [i \in 1..Len(nodes) |-> normalize_provider_message(nodes[i], t)]

\* wasender.py extract_webhook_messages.
extract_webhook_messages(nodes, t) == SortByTs(DedupBatch(NormalizeAll(nodes, t), {}))

\* wasender.py extract_webhook_chat_updates on the (wa_id, timestamp field)
\* pairs of a chat event.
RECURSIVE DedupChats(_, _)
DedupChats(items, seen) ==
    IF items = <<>> THEN <<>>
    ELSE IF Head(items) \in seen THEN DedupChats(Tail(items), seen)
         ELSE <<Head(items)>> \o DedupChats(Tail(items), seen \cup {Head(items)})

extract_webhook_chat_updates(chats, t) ==
    DedupChats([i \in 1..Len(chats) |->
                   [wa_id |-> chats[i].wa_id, ts |-> parse_provider_timestamp(chats[i].ts, t)]],
               {})

RECURSIVE IngestAll(_, _, _, _, _)
IngestAll(db, pms, provider, t, tb) ==
    IF pms = <<>> THEN db
    ELSE IngestAll(_ingest_provider_message(db, Head(pms), provider, t, tb),
                   Tail(pms), provider, t, tb)

RECURSIVE TouchAll(_, _, _, _)
TouchAll(db, updates, t, tb) ==
    IF updates = <<>> THEN db
    ELSE TouchAll(_touch_chat_update(db, Head(updates).wa_id, Head(updates).ts, t, tb),
                  Tail(updates), t, tb)

ChatNodes == [wa_id : Phones, ts : Stamps]

Db == [convs |-> convs, msgs |-> msgs, apps |-> <<>>]

\* The record of the last handled request: its name, its target, the message
\* nodes it carried, the conversations and messages before it, its calls of
\* _append_message; prev_nodes and prev_apps are the nodes and the number of
\* appends of the request before it when that was a message webhook.
Last(op, target, nodes, apps, result) ==
    [op |-> op, target |-> target, nodes |-> nodes, pre |-> convs, pre_msgs |-> msgs,
     apps |-> apps, result |-> result,
     prev_nodes |-> IF last.op = "webhook_wasender" THEN last.nodes ELSE <<>>,
     prev_apps |-> IF last.op = "webhook_wasender" THEN Len(last.apps) ELSE 0]

NoRequest ==
    [op |-> "init", target |-> 0, nodes |-> <<>>, pre |-> <<>>, pre_msgs |-> EmptyBag,
     apps |-> <<>>, result |-> "ok", prev_nodes |-> <<>>, prev_apps |-> 0]

(***************************************************************************)
(* The request handlers.                                                   *)
(***************************************************************************)
\* main.py webhook_wasender: POST /webhook/wasender; nodes are the message
\* nodes of the envelope, chats the (wa_id, timestamp) nodes of a chat event.
webhook_wasender(nodes, chats) ==
    LET pms == extract_webhook_messages(nodes, now)
        db1 == IngestAll(Db, pms, "wasender", now, PlanOrder)
        db2 == TouchAll(db1, extract_webhook_chat_updates(chats, now), now, PlanOrder)
    IN  /\ convs' = db2.convs
        /\ msgs' = db2.msgs
        /\ last' = Last("webhook_wasender", 0, nodes, db2.apps, "ok")
        /\ UNCHANGED now

\* main.py _parse_timestamp, for a missing and for an ISO value.
_parse_timestamp(value, t) == IF value = NULL THEN t ELSE value

\* main.py webhook_mock: POST /webhook/mock (no duplicate check).
webhook_mock(wa_id, sender, text, timestamp, provider, message_id) ==
    LET fc == FindOrCreate(Db, wa_id, now, PlanOrder)
        ts == _parse_timestamp(timestamp, now)
        db1 == _append_message(fc.db, fc.cid, sender, text, ts, provider, message_id, now)
    IN  /\ convs' = db1.convs
        /\ msgs' = db1.msgs
        /\ last' = Last("webhook_mock", fc.cid, <<>>, db1.apps, "ok")
        /\ UNCHANGED now

add_message_stored_before_push(cid, sender, text, ts, provider, pmid, push) ==
    /\ cid \in 1..Len(convs)
    /\ LET failed == sender \in {"AGENT", "BOT"} /\ push = "error"
           db1 == _append_message(Db, cid, sender, text, IF ts = NULL THEN now ELSE ts,
                                  provider, pmid, now)
       IN  /\ convs' = db1.convs
           /\ msgs' = db1.msgs
           /\ last' = Last("add_message", cid, <<>>, db1.apps,
                           IF failed THEN "error" ELSE "ok")
    /\ UNCHANGED now

\* main.py add_message: POST /conversations/{id}/messages.  push is the outcome
\* of _push_outbound_to_wasender for an AGENT or BOT message: "error"
\* (WasenderError, answered 502), or the id the provider returns (NONE when it
\* returns none or pushing is switched off).
add_message(cid, sender, text, ts, provider, pmid, push) ==
    /\ cid \in 1..Len(convs)
    /\ IF sender \in {"AGENT", "BOT"} /\ push = "error"
       THEN /\ UNCHANGED <<convs, msgs>>
            /\ last' = Last("add_message", cid, <<>>, <<>>, "error")
       ELSE LET prov == IF sender \in {"AGENT", "BOT"} THEN "wasender" ELSE provider
                id == IF sender \in {"AGENT", "BOT"} THEN push ELSE pmid
                when == IF ts = NULL THEN now ELSE ts
                db1 == _append_message(Db, cid, sender, text, when, prov, id, now)
            IN  /\ convs' = db1.convs
                /\ msgs' = db1.msgs
                /\ last' = Last("add_message", cid, <<>>, db1.apps, "ok")
    /\ UNCHANGED now

patch_row_untagged(conv, status, t) ==
    [conv EXCEPT !.tags = <<>>, !.updated_at = t]

\* main.py patch_conversation: PATCH /conversations/{id}; status NONE is a
\* patch of the agent or the outcome alone.
patch_row(conv, status, t) ==
    LET c1 == IF conv.status = "CLOSED" /\ status # "CLOSED"
              THEN [conv EXCEPT !.reopened_count = @ + 1, !.closed_at = NULL]
              ELSE conv
        c2 == IF status = "CLOSED" /\ c1.closed_at = NULL
              THEN [c1 EXCEPT !.closed_at = t]
              ELSE c1
        c3 == IF status # NONE /\ status # conv.status
              THEN [c2 EXCEPT !.status = status]
              ELSE conv
    IN  _recalc_risk([c3 EXCEPT !.updated_at = t], t)

patch_conversation(cid, status) ==
    /\ cid \in 1..Len(convs)
    /\ convs' = [convs EXCEPT ![cid] = patch_row(@, status, now)]
    /\ last' = Last("patch_conversation", cid, <<>>, <<>>, "ok")
    /\ UNCHANGED <<msgs, now>>

\* insights.py analyze_messages: the summariser's answers (DeepSeek or the
\* keyword fallback), as the label, score and tags the handler stores.
Analyses ==
    {[sentiment_label |-> "NEGATIVE", sentiment_score |-> 3, tags |-> <<"precio">>],
     [sentiment_label |-> "POSITIVE", sentiment_score |-> 8, tags |-> <<"plan_pro">>]}

HasMessages(cid) == \E m \in BagToSet(msgs) : m.conversation_id = cid

\* main.py analyze_conversation: POST /conversations/{id}/analyze.  A
\* conversation without messages is answered 400 and is no step.
analyze_conversation(cid, force, analysis) ==
    /\ cid \in 1..Len(convs)
    /\ LET conv == convs[cid]
       IN  IF conv.has_summary /\ ~force
           THEN /\ UNCHANGED convs
                /\ last' = Last("analyze_conversation", cid, <<>>, <<>>, "cached")
           ELSE /\ HasMessages(cid)
                /\ convs' = [convs EXCEPT ![cid] =
                       _recalc_risk([conv EXCEPT !.has_summary = TRUE,
                                                 !.tags = analysis.tags,
                                                 !.sentiment_score = analysis.sentiment_score,
                                                 !.sentiment_label = analysis.sentiment_label,
                                                 !.updated_at = now],
                                    now)]
                /\ last' = Last("analyze_conversation", cid, <<>>, <<>>, "ok")
    /\ UNCHANGED <<msgs, now>>

_refresh_risk_flags_touching_all(cs, t) ==
    [i \in 1..Len(cs) |-> [_recalc_risk(cs[i], t) EXCEPT !.updated_at = t]]

\* main.py _refresh_risk_flags: recalc every conversation, touch updated_at of
\* those whose flag or reasons changed.
_refresh_risk_flags(cs, t) ==
    [i \in 1..Len(cs) |->
        LET after == _recalc_risk(cs[i], t)
        IN  IF after.risk_flag # cs[i].risk_flag \/ after.risk_reasons # cs[i].risk_reasons
            THEN [after EXCEPT !.updated_at = t]
            ELSE after]

\* main.py list_conversations / dashboard_summary: the refresh sweep.
list_conversations ==
    /\ convs # <<>>
    /\ convs' = _refresh_risk_flags(convs, now)
    /\ last' = Last("list_conversations", 0, <<>>, <<>>, "ok")
    /\ UNCHANGED <<msgs, now>>

RECURSIVE KeepPhone(_, _)
KeepPhone(items, phone) ==
    IF items = <<>> THEN <<>>
    ELSE IF Head(items).wa_id = phone
         THEN <<Head(items)>> \o KeepPhone(Tail(items), phone)
         ELSE KeepPhone(Tail(items), phone)

\* wasender.py fetch_history_for_phone on the rows the remote pages return.
fetch_history_for_phone(rows, phone, t) ==
    SortByTs(DedupBatch(KeepPhone(NormalizeAll(rows, t), phone), {}))

RECURSIVE ImportAll(_, _, _, _)
ImportAll(db, cid, history, t) ==
    IF history = <<>> THEN db
    ELSE LET item == Head(history)
             db1 == IF _message_exists(db.msgs, cid, "wasender", item.provider_message_id,
                                       item.sender, item.text, item.ts)
                    THEN db
                    ELSE _append_message(db, cid, item.sender, item.text, item.ts,
                                         "wasender", item.provider_message_id, t)
         IN  ImportAll(db1, cid, Tail(history), t)

\* main.py _sync_conversation_with_wasender; fetched.ok is FALSE when the
\* remote fetch raises WasenderError, else fetched.rows are the rows fetched
\* (none when the sync is switched off or not configured).
_sync_conversation_with_wasender(db, cid, fetched, t) ==
    IF ~fetched.ok THEN db
    ELSE ImportAll(db, cid, fetch_history_for_phone(fetched.rows, db.convs[cid].client, t), t)

\* main.py get_conversation_detail: GET /conversations/{id}.
get_conversation_detail(cid, fetched) ==
    /\ cid \in 1..Len(convs)
    /\ LET db1 == _sync_conversation_with_wasender(Db, cid, fetched, now)
           db2 == [db1 EXCEPT !.convs[cid] = _recalc_risk(@, now)]
       IN  /\ convs' = db2.convs
           /\ msgs' = db2.msgs
           /\ last' = Last("get_conversation_detail", cid, <<>>, db2.apps,
                           IF fetched.ok THEN "ok" ELSE "error")
    /\ UNCHANGED now

(***************************************************************************)
(* The engine specification: requests are handled one at a time, at most   *)
(* MaxOps of them; the wall clock (_utcnow) advances between requests.     *)
(***************************************************************************)
\* No request is in flight and no history sync is under way.
NoSessions == <<>>
NoSync == [phase |-> "idle"]

Init ==
    /\ convs = <<>>
    /\ msgs = EmptyBag
    /\ now = 0
    /\ ops = 0
    /\ last = NoRequest
    /\ sessions = NoSessions
    /\ sync = NoSync

Counted == ops < MaxOps /\ ops' = ops + 1 /\ UNCHANGED <<sessions, sync>>

ConvIds == 1..MaxOps

\* A message event carries one message node, a chat event one chat node.
WebhookWasender ==
    /\ Counted
    /\ \/ \E node \in Nodes : webhook_wasender(<<node>>, <<>>)
       \/ \E chat \in ChatNodes : webhook_wasender(<<>>, <<chat>>)

WebhookMock ==
    /\ Counted
    /\ \E wa_id \in Phones, sender \in MessageSender, text \in Texts,
          timestamp \in Stamps, provider \in MockProviders, message_id \in MockPmids :
           webhook_mock(wa_id, sender, text, timestamp, provider, message_id)

AddMessage ==
    /\ Counted
    /\ \E cid \in ConvIds, sender \in MessageSender, text \in Texts,
          ts \in Stamps, provider \in MockProviders, push \in PushResults :
           /\ sender = "USER" => push = "m1"
           /\ add_message(cid, sender, text, ts, provider, NONE, push)

PatchConversation ==
    /\ Counted
    /\ \E cid \in ConvIds, status \in PatchStatuses \cup {NONE} :
           patch_conversation(cid, status)

AnalyzeConversation ==
    /\ Counted
    /\ \E cid \in ConvIds, force \in BOOLEAN, analysis \in Analyses :
           analyze_conversation(cid, force, analysis)

ListConversations == Counted /\ list_conversations

GetConversationDetail ==
    /\ Counted
    /\ \E cid \in ConvIds :
           \/ get_conversation_detail(cid, [ok |-> FALSE, rows |-> <<>>])
           \/ \E row \in Nodes :
                  /\ row.provider_message_id \in SyncPmids \cup {NONE}
                  /\ get_conversation_detail(cid, [ok |-> TRUE, rows |-> <<row>>])

Tick ==
    /\ \E t \in Stamps : t > now /\ now' = t
    /\ UNCHANGED <<convs, msgs, ops, last, sessions, sync>>

Next ==
    \/ WebhookWasender
    \/ WebhookMock
    \/ AddMessage
    \/ PatchConversation
    \/ AnalyzeConversation
    \/ ListConversations
    \/ GetConversationDetail
    \/ Tick

Spec == Init /\ [][Next]_vars
(***************************************************************************)
(* The demo seed (services.py seed_database), for a payload of one client  *)
(* and one conversation.  The draws of the random generator are inputs:    *)
(* the creation time, the status, the reopen counter, the senders of the   *)
(* generated messages, whether the conversation is negative, and whether a *)
(* closed one is won.  The delays are values of the ranges the code draws  *)
(* from: 1..5 minutes before the first message, 2..35 before a later one,  *)
(* 5..180 before the close.                                                *)
(***************************************************************************)
SeedPhone == "57300000001"
SeedText == "Hola, cuanto vale?"
SeedFirstDelay == 5 * 60
SeedNextDelay == 31 * 60
SeedCloseDelay == 31 * 60
SeedDraws ==
    {[created_at |-> 0, status |-> "NEW", reopened_count |-> 0,
      senders |-> <<"USER">>, negative |-> FALSE, won |-> FALSE],
     [created_at |-> 0, status |-> "CONTACTED", reopened_count |-> 1,
      senders |-> <<"USER", "AGENT">>, negative |-> TRUE, won |-> FALSE],
     [created_at |-> 0, status |-> "CLOSED", reopened_count |-> 0,
      senders |-> <<"USER", "AGENT">>, negative |-> FALSE, won |-> TRUE],
     [created_at |-> 0, status |-> "CLOSED", reopened_count |-> 0,
      senders |-> <<>>, negative |-> FALSE, won |-> FALSE]}

\* The loop body of seed_database for message i with timestamp ts.
SeedMessage(conv, sender, ts) ==
    LET c1 == [conv EXCEPT !.last_message_at = ts]
        c2 == IF sender = "USER" /\ c1.first_user_message_at = NULL
              THEN [c1 EXCEPT !.first_user_message_at = ts]
              ELSE c1
        c3 == IF sender = "AGENT" /\ c2.first_agent_reply_at = NULL
              THEN [c2 EXCEPT !.first_agent_reply_at = ts]
              ELSE c2
    IN  IF sender = "AGENT" THEN [c3 EXCEPT !.last_agent_reply_at = ts] ELSE c3

SeedStamp(created_at, i) == created_at + SeedFirstDelay + (i - 1) * SeedNextDelay

RECURSIVE SeedMessages(_, _, _, _)
SeedMessages(conv, senders, created_at, i) ==
    IF i > Len(senders) THEN conv
    ELSE SeedMessages(SeedMessage(conv, senders[i], SeedStamp(created_at, i)),
                      senders, created_at, i + 1)

seed_database(created_at, status, reopened_count, senders, negative, won) ==
    LET c0 == [_create_conversation(SeedPhone, created_at) EXCEPT
                   !.status = status, !.reopened_count = reopened_count]
        c1 == SeedMessages(c0, senders, created_at, 1)
        c2 == IF status = "CLOSED"
              THEN [c1 EXCEPT !.closed_at = c1.last_message_at + SeedCloseDelay]
              ELSE c1
        c3 == IF negative
              THEN [c2 EXCEPT !.sentiment_label = "NEGATIVE", !.sentiment_score = 3,
                              !.tags = <<"cancelacion">>]
              ELSE IF status = "CLOSED" /\ won
              THEN [c2 EXCEPT !.sentiment_label = "POSITIVE", !.sentiment_score = 8,
                              !.tags = <<"plan_pro", "demo">>]
              ELSE [c2 EXCEPT !.sentiment_label = "NEUTRAL", !.sentiment_score = 5,
                              !.tags = <<"seguimiento">>]
        c4 == [_recalc_risk(c3, now) EXCEPT !.updated_at = now]
    IN  /\ convs' = <<c4>>
        /\ msgs' = SetToBag({Message(1, senders[i], SeedText, SeedStamp(created_at, i),
                                     "mock", NONE) : i \in 1..Len(senders)})
        /\ last' = Last("seed_database", 0, <<>>, <<>>, "ok")
        /\ UNCHANGED now

\* main.py lifespan: with AUTO_SEED_ON_STARTUP the application seeds an empty
\* database before it serves its first request.
SeedDatabase ==
    /\ ops = 0
    /\ convs = <<>>
    /\ Counted
    /\ \E d \in SeedDraws :
           seed_database(d.created_at, d.status, d.reopened_count, d.senders,
                         d.negative, d.won)

NextSeed == Next \/ SeedDatabase

SpecSeed == Init /\ [][NextSeed]_vars

(***************************************************************************)
(* The risk specification: _recalc_risk applied to one conversation row    *)
(* whose fields and whose `now` are drawn from bounded sets.  The stamps   *)
(* lie on a half-minute grid around the instants where the two SLA         *)
(* thresholds are crossed.                                                 *)
(***************************************************************************)
RiskStep == 30
RiskOffsets == {k * RiskStep : k \in 0..MaxRiskStamp}
RiskFieldStamps == {NULL, 0, RiskStep, 2 * SLA_OVERDUE_FOLLOW_UP_MINUTES * 60}
RiskNows ==
    {base + d : base \in {0, SLA_OVERDUE_NEW_MINUTES * 60, SLA_OVERDUE_FOLLOW_UP_MINUTES * 60},
                d \in RiskOffsets}
RiskPrevious == {<<>>, <<Reopened, NoFirstReply>>}

RiskConvs ==
    {[_create_conversation("573001", 0) EXCEPT
          !.status = st, !.first_user_message_at = fu, !.first_agent_reply_at = fa,
          !.last_agent_reply_at = la, !.sentiment_label = sl, !.reopened_count = rc,
          !.risk_reasons = rr, !.risk_flag = (rr # <<>>)] :
        st \in ConversationStatus, fu \in RiskFieldStamps, fa \in {NULL, 0},
        la \in RiskFieldStamps, sl \in SentimentLabel \cup {NONE}, rc \in 0..2,
        rr \in RiskPrevious}

InitRisk ==
    /\ convs \in {<<c>> : c \in RiskConvs}
    /\ msgs = EmptyBag
    /\ now \in RiskNows
    /\ ops = 0
    /\ last = NoRequest
    /\ sessions = NoSessions
    /\ sync = NoSync

\* services.py recalc_risk(conv, now) on the row, at most twice in succession.
RecalcRisk ==
    /\ ops < 2
    /\ ops' = ops + 1
    /\ convs' = <<_recalc_risk(convs[1], now)>>
    /\ last' = Last("recalc_risk", 1, <<>>, <<>>, "ok")
    /\ UNCHANGED <<msgs, now, sessions, sync>>

SpecRisk == InitRisk /\ [][RecalcRisk]_vars
(***************************************************************************)
(* The race specification: two requests in flight at once.  Each request   *)
(* has its own ORM session (database.py get_session); a session keeps the  *)
(* conversation row as it read it, and its commit writes the columns whose *)
(* value it changed.  The handlers take no lock and the rows carry no      *)
(* version, so the steps of two requests interleave freely: the query for  *)
(* the open conversation, the insert of a new one, the duplicate lookup,   *)
(* and the commit of an appended message.  webhook_wasender is a coroutine *)
(* and does not yield between these steps, so at most one of the two       *)
(* requests is a provider webhook; the other handlers run on worker        *)
(* threads.                                                                *)
(***************************************************************************)
RacePhone == "573001"
RaceFirst == [wa_id |-> RacePhone, sender |-> "USER", text |-> "hola", ts |-> 0,
              provider_message_id |-> NONE]
NoDb == [convs |-> <<>>, msgs |-> EmptyBag, apps |-> <<>>]

\* The databases a race starts from: one conversation of the counterpart,
\* opened by a first inbound message, still open or closed by a patch.
RaceOpen == _ingest_provider_message(NoDb, RaceFirst, "wasender", 0, PlanOrder)
RaceClosed == [RaceOpen EXCEPT !.convs[1] = patch_row(@, "CLOSED", 0)]
RaceStarts == {RaceOpen, RaceClosed}

RaceKinds == {"webhook_wasender", "webhook_mock", "add_message", "get_conversation_detail"}
NoRow == [status |-> NONE]

\* A request as it enters its handler.
Request(kind, sender, ts) ==
    [kind |-> kind,
     pc |-> IF kind \in {"webhook_wasender", "webhook_mock"} THEN "find" ELSE "get",
     wa_id |-> RacePhone,
     cid |-> IF kind \in {"webhook_wasender", "webhook_mock"} THEN 0 ELSE 1,
     sender |-> sender, text |-> "hola", ts |-> ts,
     provider |-> IF kind \in {"webhook_wasender", "get_conversation_detail"}
                  THEN "wasender" ELSE "mock",
     provider_message_id |-> IF kind \in {"webhook_wasender", "get_conversation_detail"}
                             THEN "m1" ELSE NONE,
     snap |-> NoRow, appended |-> FALSE, created |-> FALSE]

InitRace ==
    /\ \E db \in RaceStarts : convs = db.convs /\ msgs = db.msgs
    /\ now = MaxStamp * StampStep
    /\ ops = 0
    /\ last = [NoRequest EXCEPT !.pre = convs, !.pre_msgs = msgs]
    /\ \E k1 \in RaceKinds, k2 \in RaceKinds \ {"webhook_wasender"},
          s1 \in {"USER", "AGENT"}, s2 \in {"USER", "AGENT"}, t1 \in Stamps, t2 \in Stamps :
           sessions = <<Request(k1, s1, t1), Request(k2, s2, t2)>>
    /\ sync = NoSync

\* The step that follows the lookup of the conversation, and the commit.
AfterLoad(kind) == IF kind \in {"webhook_mock", "add_message"} THEN "append" ELSE "exists"
AfterCommit(kind) == IF kind = "get_conversation_detail" THEN "recalc" ELSE "done"

\* session.commit(): the UPDATE sets the columns the session changed.
Flush(row, before, after) ==
    [f \in DOMAIN row |-> IF after[f] # before[f] THEN after[f] ELSE row[f]]

\* _find_open_conversation in _ingest_provider_message and webhook_mock.
Find(r) ==
    LET q == sessions[r]
        found == _find_open_conversation(convs, q.wa_id, PlanOrder)
    IN  /\ q.pc = "find"
        /\ sessions' = [sessions EXCEPT ![r] =
               IF found # 0
               THEN [q EXCEPT !.cid = found, !.snap = convs[found], !.pc = AfterLoad(q.kind)]
               ELSE [q EXCEPT !.pc = "create"]]
        /\ UNCHANGED <<convs, msgs, now, ops, last, sync>>

\* _create_conversation: insert, commit, refresh.
Create(r) ==
    LET q == sessions[r]
        row == _create_conversation(q.wa_id, IF q.kind = "webhook_wasender" THEN q.ts ELSE now)
    IN  /\ q.pc = "create"
        /\ convs' = Append(convs, row)
        /\ sessions' = [sessions EXCEPT ![r] =
               [q EXCEPT !.cid = Len(convs) + 1, !.snap = row, !.created = TRUE,
                         !.pc = AfterLoad(q.kind)]]
        /\ UNCHANGED <<msgs, now, ops, last, sync>>

\* session.get(Conversation, id) in add_message and get_conversation_detail.
Get(r) ==
    LET q == sessions[r]
    IN  /\ q.pc = "get"
        /\ sessions' = [sessions EXCEPT ![r] =
               [q EXCEPT !.snap = convs[q.cid], !.pc = AfterLoad(q.kind)]]
        /\ UNCHANGED <<convs, msgs, now, ops, last, sync>>

\* _message_exists in _ingest_provider_message and _sync_conversation_with_wasender.
Exists(r) ==
    LET q == sessions[r]
        hit == _message_exists(msgs, q.cid, q.provider, q.provider_message_id,
                               q.sender, q.text, q.ts)
    IN  /\ q.pc = "exists"
        /\ sessions' = [sessions EXCEPT ![r] =
               [q EXCEPT !.pc = IF hit THEN AfterCommit(q.kind) ELSE "append"]]
        /\ UNCHANGED <<convs, msgs, now, ops, last, sync>>

\* _append_message: insert the message, apply it to the session's row,
\* recalc, commit, refresh.
Commit(r) ==
    LET q == sessions[r]
        after == _recalc_risk(_apply_message_to_conversation(q.snap, q.sender, q.ts, now), now)
        row == Flush(convs[q.cid], q.snap, after)
    IN  /\ q.pc = "append"
        /\ convs' = [convs EXCEPT ![q.cid] = row]
        /\ msgs' = msgs (+) SetToBag({Message(q.cid, q.sender, q.text, q.ts,
                                              q.provider, q.provider_message_id)})
        /\ sessions' = [sessions EXCEPT ![r] =
               [q EXCEPT !.snap = row, !.appended = TRUE, !.pc = AfterCommit(q.kind)]]
        /\ UNCHANGED <<now, ops, last, sync>>

\* get_conversation_detail after the sync: recalc_risk, commit.
Recalc(r) ==
    LET q == sessions[r]
        row == Flush(convs[q.cid], q.snap, _recalc_risk(q.snap, now))
    IN  /\ q.pc = "recalc"
        /\ convs' = [convs EXCEPT ![q.cid] = row]
        /\ sessions' = [sessions EXCEPT ![r] = [q EXCEPT !.snap = row, !.pc = "done"]]
        /\ UNCHANGED <<msgs, now, ops, last, sync>>

NextRace ==
    \E r \in 1..2 :
        \/ Find(r)
        \/ Create(r)
        \/ Get(r)
        \/ Exists(r)
        \/ Commit(r)
        \/ Recalc(r)

SpecRace == InitRace /\ [][NextRace]_vars

(***************************************************************************)
(* The history-sync specification: one GET /conversations/{id} followed    *)
(* through its steps (the remote page requests of fetch_history_for_phone, *)
(* then the item-by-item import of _sync_conversation_with_wasender, each  *)
(* item committed by _append_message), or one message webhook that carries *)
(* two nodes.  Remote rows and nodes name one of two counterparts.         *)
(***************************************************************************)
SyncPhones == {"573001", "573002"}
SyncRows ==
    [wa_id : SyncPhones, sender : {"USER"}, text : Texts, ts : Stamps,
     provider_message_id : {NONE}]
BatchNodes ==
    [wa_id : SyncPhones, sender : {"USER", "AGENT"}, text : Texts, ts : Stamps,
     provider_message_id : {"m2", NONE}]

\* settings.wasender_sync_page_size (WASENDER_SYNC_PAGE_SIZE) and
\* settings.wasender_sync_max_pages.
PerPage == 2
wasender_sync_max_pages == 3

\* A page holds at most per_page rows.
PageRows == UNION {[1..n -> SyncRows] : n \in 0..PerPage}

\* What one GET of the message log can come to in WasenderClient._request:
\* "rows", a JSON body with the rows; "WasenderError", a transport error or a
\* status >= 400; "ValueError", response.json() failing on a body that is not
\* JSON under a JSON content type; "raw", a body of another content type,
\* returned as {"raw": text}.
FailureKinds == {"WasenderError", "ValueError", "raw"}
PageOutcomes ==
    [kind : {"rows"}, rows : PageRows] \cup [kind : FailureKinds, rows : {<<>>}]

\* wasender.py fetch_message_logs on a response that did not raise:
\* _extract_data_rows finds no row in {"raw": text}.
fetch_message_logs(outcome) == IF outcome.kind = "rows" THEN outcome.rows ELSE <<>>

more_pages_to_cap(rows, page) == page < wasender_sync_max_pages

\* fetch_history_for_phone: the loop goes on to the next page.
more_pages(rows, page) ==
    rows # <<>> /\ Len(rows) >= PerPage /\ page < wasender_sync_max_pages

RECURSIVE Concat(_)
Concat(pages) == IF pages = <<>> THEN <<>> ELSE Head(pages) \o Concat(Tail(pages))

InitSync ==
    /\ convs = RaceOpen.convs
    /\ msgs = RaceOpen.msgs
    /\ now = MaxStamp * StampStep
    /\ ops = 0
    /\ last = [NoRequest EXCEPT !.pre = convs, !.pre_msgs = msgs]
    /\ sessions = NoSessions
    /\ sync = NoSync

\* get_conversation_detail loads the conversation and enters the sync.
SyncStart ==
    /\ ops = 0 /\ sync.phase = "idle"
    /\ \E cid \in 1..Len(convs) :
           sync' = [phase |-> "fetch", cid |-> cid, page |-> 1, requested |-> <<>>,
                    outcomes |-> <<>>, pages |-> <<>>, pending |-> <<>>,
                    applied |-> <<>>, imported |-> 0, pre |-> convs, pre_msgs |-> msgs]
    /\ ops' = ops + 1
    /\ UNCHANGED <<convs, msgs, now, last, sessions>>

\* One pass of the page loop of fetch_history_for_phone; after the last page
\* the collected rows are filtered, deduplicated and sorted.
FetchPage ==
    /\ sync.phase = "fetch"
    /\ \E outcome \in PageOutcomes :
           LET asked == [sync EXCEPT !.requested = Append(@, sync.page),
                                     !.outcomes = Append(@, outcome.kind)]
               rows == fetch_message_logs(outcome)
               pages == Append(sync.pages, rows)
               history == fetch_history_for_phone(Concat(pages), convs[sync.cid].client, now)
           IN  sync' =
                   IF outcome.kind = "WasenderError"
                   THEN [asked EXCEPT !.phase = "returned"]
                   ELSE IF outcome.kind = "ValueError"
                   THEN [asked EXCEPT !.phase = "raised"]
                   ELSE IF more_pages(rows, sync.page)
                   THEN [asked EXCEPT !.pages = pages, !.page = @ + 1]
                   ELSE [asked EXCEPT !.pages = pages, !.pending = history,
                                      !.phase = IF history = <<>> THEN "returned"
                                                ELSE "import"]
    /\ UNCHANGED <<convs, msgs, now, ops, last, sessions>>

\* One pass of the import loop of _sync_conversation_with_wasender.
ImportItem ==
    /\ sync.phase = "import"
    /\ LET item == Head(sync.pending)
           dup == _message_exists(msgs, sync.cid, "wasender", item.provider_message_id,
                                  item.sender, item.text, item.ts)
           db1 == IF dup THEN Db
                  ELSE _append_message(Db, sync.cid, item.sender, item.text, item.ts,
                                       "wasender", item.provider_message_id, now)
       IN  /\ convs' = db1.convs
           /\ msgs' = db1.msgs
           /\ sync' = [sync EXCEPT
                          !.pending = Tail(@),
                          !.applied = IF dup THEN @ ELSE Append(@, item),
                          !.imported = IF dup THEN @ ELSE @ + 1,
                          !.phase = IF Tail(sync.pending) = <<>> THEN "returned" ELSE @]
    /\ UNCHANGED <<now, ops, last, sessions>>

\* The request ends between two passes of the import loop (the worker is
\* stopped, or a statement of the next pass raises); what _append_message
\* committed stays.
Abandon ==
    /\ sync.phase = "import"
    /\ sync' = [sync EXCEPT !.phase = "abandoned"]
    /\ UNCHANGED <<convs, msgs, now, ops, last, sessions>>

\* get_conversation_detail after the sync returned: recalc_risk and commit.
SyncFinish ==
    /\ sync.phase = "returned"
    /\ convs' = [convs EXCEPT ![sync.cid] = _recalc_risk(@, now)]
    /\ sync' = [sync EXCEPT !.phase = "done"]
    /\ last' = Last("get_conversation_detail", sync.cid, <<>>, <<>>, "ok")
    /\ UNCHANGED <<msgs, now, ops, sessions>>

\* POST /webhook/wasender with an envelope of two message nodes.
WebhookBatch ==
    /\ ops = 0 /\ sync.phase = "idle"
    /\ ops' = ops + 1
    /\ \E a, b \in BatchNodes : webhook_wasender(<<a, b>>, <<>>)
    /\ UNCHANGED <<sessions, sync>>

NextSync ==
    \/ SyncStart
    \/ FetchPage
    \/ ImportItem
    \/ Abandon
    \/ SyncFinish
    \/ WebhookBatch

SpecSync == InitSync /\ [][NextSync]_vars

(***************************************************************************)
(* The normalisers of wasender.py.  A Python string is the sequence of its *)
(* characters, over an alphabet with one digit, one letter, the blank and  *)
(* the '@' separator; None is the value of type "None".                    *)
(***************************************************************************)
MaxLen == 4
Chars == {"5", "a", " ", "@"}
DigitChars == {"5"}
Whitespace == {" "}
Strings == UNION {[1..n -> Chars] : n \in 0..MaxLen}

None == [type |-> "None"]
Str(chars) == [type |-> "str", chars |-> chars]
WaValues == {None} \cup {Str(chars) : chars \in Strings}

RECURSIVE lstrip(_)
lstrip(chars) ==
    IF chars # <<>> /\ Head(chars) \in Whitespace THEN lstrip(Tail(chars)) ELSE chars

RECURSIVE rstrip(_)
rstrip(chars) ==
    IF chars # <<>> /\ chars[Len(chars)] \in Whitespace
    THEN rstrip(SubSeq(chars, 1, Len(chars) - 1))
    ELSE chars

\* str.strip().
strip(chars) == rstrip(lstrip(chars))

\* raw.split("@", maxsplit=1)[0].
RECURSIVE split_at(_)
split_at(chars) ==
    IF chars = <<>> \/ Head(chars) = "@" THEN <<>>
    ELSE <<Head(chars)>> \o split_at(Tail(chars))

IsDigit(c) == c \in DigitChars

\* "".join(PHONE_CHARS.findall(raw)).
digits_of(chars) == SelectSeq(chars, IsDigit)

\* wasender.py normalize_wa_id; the result is a string, given by its characters.
normalize_wa_id(value) ==
    IF value.type = "None" THEN <<>>
    ELSE LET raw == strip(value.chars)
             head == IF \E i \in 1..Len(raw) : raw[i] = "@" THEN split_at(raw) ELSE raw
             digits == digits_of(head)
         IN  IF raw = <<>> THEN <<>>
             ELSE IF digits # <<>> THEN digits ELSE head

(***************************************************************************)
(* Timestamps.  Epoch numbers are written in units of 10^7 (so the         *)
(* threshold 10_000_000_000 of parse_provider_timestamp is 1000), the      *)
(* datetimes that come out in units of 10^4 seconds: a number of n units   *)
(* read as seconds is the datetime 1000 * n, read as milliseconds the      *)
(* datetime n.  datetime.fromtimestamp raises outside the years 1..9999.   *)
(***************************************************************************)
MillisThreshold == 1000
DatetimeMin == -6213559
DatetimeMax == 25340230
NormalizeNow == 170000
OffsetUnit == 1

Epochs == {-6214, -6213, -1, 0, 1, 999, 1000, 1001, 25340, 25341, 25340000, 25341000}
IsoStamps == {0, 160000}

\* The values a timestamp field can hold: None, an int, a float that is not
\* finite, a str (blank, of ASCII digits, of a digit such as a superscript
\* two that str.isdigit accepts and int refuses, ISO-8601 without offset,
\* with Z or with an offset of one unit, or anything else), a dict.
StampValues ==
    {None, [type |-> "dict"]}
    \cup [type : {"int"}, n : Epochs]
    \cup [type : {"float"}, special : {"nan", "inf"}]
    \cup [type : {"str"}, form : {"blank", "superscript", "other"}]
    \cup [type : {"str"}, form : {"digits"}, n : Epochs \cap Nat]
    \cup [type : {"str"}, form : {"iso"}, ts : IsoStamps, offset : {"naive", "Z", "plus"}]

Returned(ts) == [raised |-> FALSE, ts |-> ts]
Raised(error) == [raised |-> TRUE, error |-> error]

\* datetime.fromtimestamp(numeric, tz=UTC) on a number of seconds given in
\* datetime units.
fromtimestamp(seconds) ==
    IF seconds < DatetimeMin \/ seconds > DatetimeMax
    THEN Raised("ValueError")
    ELSE Returned(seconds)

\* The isinstance(value, (int, float)) branch of parse_provider_timestamp.
parse_number(n) ==
    IF n > MillisThreshold THEN fromtimestamp(n) ELSE fromtimestamp(1000 * n)

\* wasender.py parse_provider_timestamp on any value; t is datetime.now.  For
\* a number of seconds in range it is parse_provider_timestamp above.
parse_provider_timestamp_raw(value, t) ==
    IF value.type = "None" THEN Returned(parse_provider_timestamp(NULL, t))
    ELSE IF value.type = "int" THEN parse_number(value.n)
    ELSE IF value.type = "float"
    THEN Raised(IF value.special = "nan" THEN "ValueError" ELSE "OverflowError")
    ELSE IF value.type = "dict" THEN Returned(t)
    ELSE IF value.form = "blank" THEN Returned(t)
    ELSE IF value.form = "digits" THEN parse_number(value.n)
    ELSE IF value.form = "superscript" THEN Raised("ValueError")
    ELSE IF value.form = "iso"
    THEN Returned(IF value.offset = "plus" THEN value.ts - OffsetUnit ELSE value.ts)
    ELSE Returned(t)

(***************************************************************************)
(* Candidate payloads of normalize_provider_message: a dict with the flag  *)
(* locations fromMe, from_me and key.fromMe, the direction, the            *)
(* identifier fields from and to, the text, the timestamp and the id; or a *)
(* value that is no dict.                                                  *)
(***************************************************************************)
\* A flag location holds nothing, a bool, or a str that _bool_like reads as
\* false ("0", "false", "no", "off").
FlagValues == {"absent", "True", "False", "'false'"}
Directions == {"absent", "inbound", "outbound"}
IdValues == {None, Str(<<"5">>), Str(<<"@">>)}
TextValues == {None, Str(<<"a">>), Str(<<" ">>)}
PayloadStamps == {None, [type |-> "int", n |-> 1], [type |-> "int", n |-> 25341000],
                  [type |-> "str", form |-> "other"]}

Payloads ==
    [type : {"dict"}, fromMe : FlagValues, from_me : FlagValues, key_fromMe : FlagValues,
     direction : Directions, from : IdValues, to : IdValues, text : TextValues,
     timestamp : PayloadStamps]
    \cup {[type |-> "list"]}

\* Python truth of a flag value.
Truthy(flag) == flag \in {"True", "'false'"}

\* `a or b or c`: the first operand that is true, else the last.
RECURSIVE or_chain(_)
or_chain(values) ==
    IF Len(values) = 1 \/ Truthy(Head(values)) THEN Head(values)
    ELSE or_chain(Tail(values))

\* wasender.py _bool_like: True, False or None.
_bool_like(flag) ==
    IF flag = "True" THEN "True"
    ELSE IF flag \in {"False", "'false'"} THEN "False"
    ELSE "None"

\* The sender that normalize_provider_message decides on.
sender_of(candidate, default_sender) ==
    LET from_me_flag == _bool_like(or_chain(<<candidate.fromMe, candidate.from_me,
                                              candidate.key_fromMe>>))
    IN  IF from_me_flag = "True" \/ candidate.direction = "outbound" THEN "AGENT"
        ELSE IF from_me_flag = "False" \/ candidate.direction = "inbound" THEN "USER"
        ELSE default_sender

\* The loop over wa_candidates: the first that normalises to a non-empty string.
RECURSIVE first_wa_id(_)
first_wa_id(items) ==
    IF items = <<>> THEN <<>>
    ELSE IF normalize_wa_id(Head(items)) # <<>> THEN normalize_wa_id(Head(items))
    ELSE first_wa_id(Tail(items))

\* wasender.py _extract_text on a str or None: the stripped text, <<>> for None.
_extract_text(value) == IF value.type = "None" THEN <<>> ELSE strip(value.chars)

NoMessage == [raised |-> FALSE, none |-> TRUE]

\* wasender.py normalize_provider_message on a payload; t is datetime.now.
normalize_provider_message_raw(payload, default_sender, t) ==
    IF payload.type # "dict" THEN NoMessage
    ELSE LET sender == sender_of(payload, default_sender)
             wa_id == first_wa_id(IF sender = "AGENT" THEN <<payload.to>>
                                  ELSE <<payload.from>>)
             text == _extract_text(payload.text)
             ts == parse_provider_timestamp_raw(payload.timestamp, t)
         IN  IF wa_id = <<>> \/ text = <<>> THEN NoMessage
             ELSE IF ts.raised THEN ts
             ELSE [raised |-> FALSE, none |-> FALSE, wa_id |-> wa_id, text |-> text,
                   ts |-> ts.ts, sender |-> sender]

(***************************************************************************)
(* The normaliser specification: one call of one of the three functions on *)
(* an input drawn at the start.                                            *)
(***************************************************************************)
Calls ==
    [fn : {"normalize_wa_id"}, arg : WaValues]
    \cup [fn : {"parse_provider_timestamp"}, arg : StampValues]
    \cup [fn : {"normalize_provider_message"}, arg : Payloads, default_sender : {"USER", "AGENT"}]

InitNormalize ==
    /\ convs = <<>>
    /\ msgs = EmptyBag
    /\ now = NormalizeNow
    /\ ops = 0
    /\ sessions = NoSessions
    /\ sync = NoSync
    /\ \E call \in Calls : last = [op |-> "call", call |-> call]

NormalizeWaId ==
    /\ last.op = "call" /\ last.call.fn = "normalize_wa_id"
    /\ last' = [op |-> "normalize_wa_id", arg |-> last.call.arg,
                out |-> normalize_wa_id(last.call.arg)]
    /\ UNCHANGED <<convs, msgs, now, ops, sessions, sync>>

ParseProviderTimestamp ==
    /\ last.op = "call" /\ last.call.fn = "parse_provider_timestamp"
    /\ last' = [op |-> "parse_provider_timestamp", arg |-> last.call.arg,
                out |-> parse_provider_timestamp_raw(last.call.arg, now)]
    /\ UNCHANGED <<convs, msgs, now, ops, sessions, sync>>

NormalizeProviderMessage ==
    /\ last.op = "call" /\ last.call.fn = "normalize_provider_message"
    /\ last' = [op |-> "normalize_provider_message", arg |-> last.call.arg,
                default_sender |-> last.call.default_sender,
                out |-> normalize_provider_message_raw(last.call.arg,
                                                       last.call.default_sender, now)]
    /\ UNCHANGED <<convs, msgs, now, ops, sessions, sync>>

NextNormalize ==
    \/ NormalizeWaId
    \/ ParseProviderTimestamp
    \/ NormalizeProviderMessage

SpecNormalize == InitNormalize /\ [][NextNormalize]_vars

(***************************************************************************)
(* The payload walker (wasender.py _message_nodes).  A JSON value is None, *)
(* a scalar, a list (elems) or an object; an object is given by the keys   *)
(* it holds besides the wrapper keys and by the values under its wrapper   *)
(* keys (items).  The generator is run as the stack of its pending calls:  *)
(* one step is one call of _message_nodes, which yields at most one node   *)
(* and leaves its recursive calls on top of the stack in call order.       *)
(* A position of the envelope is the path of wrapper keys and list indexes *)
(* from the root.                                                          *)
(***************************************************************************)
MaxNesting == 7
WalkDepth == 6

marker_keys ==
    {"message", "text", "body", "fromMe", "from", "to", "key", "wa_id", "id", "jid",
     "conversationTimestamp"}
wrapper_keys == <<"data", "payload", "messages", "message", "entry", "changes", "value">>

Scalar == [type |-> "scalar"]
Object(keys, items) == [type |-> "dict", keys |-> keys, items |-> items]
List(elems) == [type |-> "list", elems |-> elems]

IndexNames == <<"[0]", "[1]">>

\* The envelopes: chains of objects and lists of up to MaxNesting links that
\* end in None, a scalar, an object without a marker key or one with `text`,
\* and the objects that hold two short chains or a list of two.
WalkLeaves == {None, Scalar, Object({"event"}, <<>>), Object({"text"}, <<>>)}
WalkKeys == {"data", "message"}

RECURSIVE Chains(_)
Chains(n) ==
    IF n = 0 THEN WalkLeaves
    ELSE LET inner == Chains(n - 1)
         IN  WalkLeaves
             \cup {Object({"event"}, key :> c) : key \in WalkKeys, c \in inner}
             \cup {List(<<c>>) : c \in inner}

\* The handler answers 400 to a body that is not an object.
Envelopes ==
    {chain \in Chains(MaxNesting) : chain.type = "dict"}
    \cup {Object({"event"}, [k \in WalkKeys |-> IF k = "data" THEN a ELSE b]) :
              a \in Chains(1), b \in Chains(1)}
    \cup {Object({"event"}, "data" :> List(<<a, b>>)) : a \in Chains(1), b \in Chains(1)}

depth_exceeded_never(depth) == FALSE

\* `if depth > 6: return`.
depth_exceeded(depth) == depth > WalkDepth

\* `marker_keys.intersection(payload.keys())`.
has_marker(payload) == (payload.keys \cup DOMAIN payload.items) \cap marker_keys # {}

\* `nested = payload.get(key); if nested is None: continue`.
nested_keys(payload) ==
    SelectSeq(wrapper_keys,
              LAMBDA key : key \in DOMAIN payload.items /\ payload.items[key] # None)

Frame(payload, depth, path) == [payload |-> payload, depth |-> depth, path |-> path]

\* The recursive calls one call of _message_nodes makes, in call order.
nested_calls(frame) ==
    LET payload == frame.payload
    IN  IF payload.type = "list"
        THEN [i \in 1..Len(payload.elems) |->
                 Frame(payload.elems[i], frame.depth + 1, Append(frame.path, IndexNames[i]))]
        ELSE IF payload.type = "dict"
        THEN LET keys == nested_keys(payload)
             IN  [i \in 1..Len(keys) |->
                     Frame(payload.items[keys[i]], frame.depth + 1, Append(frame.path, keys[i]))]
        ELSE <<>>

\* What one call does with its own payload.
outcome_of(frame) ==
    IF depth_exceeded(frame.depth) THEN "abandoned"
    ELSE IF frame.payload.type = "list" THEN "list"
    ELSE IF frame.payload.type # "dict" THEN "skipped"
    ELSE IF has_marker(frame.payload) THEN "yielded"
    ELSE "passed"

InitWalk ==
    /\ convs = <<>>
    /\ msgs = EmptyBag
    /\ now = 0
    /\ ops = 0
    /\ sessions = NoSessions
    /\ sync = NoSync
    /\ \E envelope \in Envelopes :
           last = [op |-> "_message_nodes", envelope |-> envelope,
                   stack |-> <<Frame(envelope, 0, <<>>)>>, calls |-> <<>>, yielded |-> <<>>]

\* One call of _message_nodes.
MessageNodes ==
    /\ last.op = "_message_nodes"
    /\ last.stack # <<>>
    /\ LET frame == Head(last.stack)
           outcome == outcome_of(frame)
           pushed == IF outcome = "abandoned" THEN <<>> ELSE nested_calls(frame)
       IN  last' = [last EXCEPT
                       !.stack = pushed \o Tail(last.stack),
                       !.calls = Append(@, [path |-> frame.path, depth |-> frame.depth,
                                            outcome |-> outcome]),
                       !.yielded = IF outcome = "yielded" THEN Append(@, frame.payload) ELSE @]
    /\ UNCHANGED <<convs, msgs, now, ops, sessions, sync>>

NextWalk == MessageNodes

SpecWalk == InitWalk /\ [][NextWalk]_vars

(***************************************************************************)
(* The lifecycle specification: the requests that store messages or change *)
(* a status (provider and mock webhooks, posted messages, patches), handled *)
(* one at a time, on a database that already holds the first conversation  *)
(* of a counterpart, open or closed.                                       *)
(***************************************************************************)
InitLifecycle ==
    /\ \E start \in RaceStarts : convs = start.convs /\ msgs = start.msgs
    /\ now = 0
    /\ ops = 0
    /\ last = NoRequest
    /\ sessions = NoSessions
    /\ sync = NoSync

NextLifecycle ==
    \/ WebhookWasender
    \/ WebhookMock
    \/ AddMessage
    \/ PatchConversation
    \/ Tick

SpecLifecycle == InitLifecycle /\ [][NextLifecycle]_vars

(***************************************************************************)
(* The arrival-order specification: two messages are appended to a newly   *)
(* created conversation (_append_message: apply, then recalc) in the order *)
(* first, second on one copy of the database and in the order second,      *)
(* first on another copy.                                                  *)
(***************************************************************************)
OrderMessages == [sender : MessageSender, ts : Stamps]

InitOrder ==
    /\ convs = <<>>
    /\ msgs = EmptyBag
    /\ ops = 0
    /\ sessions = NoSessions
    /\ sync = NoSync
    /\ now \in Stamps
    /\ \E created \in Stamps, first \in OrderMessages, second \in OrderMessages :
           LET db == FindOrCreate(NoDb, RacePhone, created, PlanOrder).db
           IN  last = [op |-> "order", first |-> first, second |-> second,
                       forward |-> db, backward |-> db, appended |-> [forward |-> 0, backward |-> 0]]

AppendTo(db, message) ==
    _append_message(db, 1, message.sender, "hola", message.ts, "mock", NONE, now)

\* The next message of the order first, second.
AppendInOrder ==
    /\ last.op = "order"
    /\ last.appended.forward < 2
    /\ last' = [last EXCEPT
                   !.forward = AppendTo(@, IF last.appended.forward = 0
                                           THEN last.first ELSE last.second),
                   !.appended.forward = @ + 1]
    /\ UNCHANGED <<convs, msgs, now, ops, sessions, sync>>

\* The next message of the order second, first.
AppendReversed ==
    /\ last.op = "order"
    /\ last.appended.backward < 2
    /\ last' = [last EXCEPT
                   !.backward = AppendTo(@, IF last.appended.backward = 0
                                            THEN last.second ELSE last.first),
                   !.appended.backward = @ + 1]
    /\ UNCHANGED <<convs, msgs, now, ops, sessions, sync>>

NextOrder ==
    \/ AppendInOrder
    \/ AppendReversed

SpecOrder == InitOrder /\ [][NextOrder]_vars

(***************************************************************************)
(* Properties.                                                             *)
(***************************************************************************)
\* The calls of _append_message made by the last request.
Apps == {last.apps[i] : i \in 1..Len(last.apps)}

\* The number of stored rows of a conversation with a provider and provider id.
Stored(cid, provider, pmid) ==
    LET rows == {m \in BagToSet(msgs) : /\ m.conversation_id = cid
                                        /\ m.provider = provider
                                        /\ m.provider_message_id = pmid}
    IN  BagCardinality([m \in rows |-> msgs[m]])

\* The last request is the second of two consecutive deliveries of one message
\* webhook whose node carries a provider id, and the first delivery was stored.
Redelivered ==
    /\ last.op = "webhook_wasender"
    /\ Len(last.nodes) = 1
    /\ last.prev_nodes = last.nodes
    /\ last.prev_apps = 1
    /\ last.nodes[1].provider_message_id # NONE

\* C1: delivering the same provider message (same counterpart, sender, text,
\* timestamp, non-empty provider id) a second time through the webhook stores
\* nothing and leaves every conversation as the first delivery left it; the
\* conversation holds exactly one message with that provider id.
C1_RedeliveryIsIdempotent ==
    Redelivered =>
        /\ last.apps = <<>>
        /\ msgs = last.pre_msgs
        /\ convs = last.pre
        /\ Stored(_find_open_conversation(convs, last.nodes[1].wa_id, PlanOrder),
                  "wasender", last.nodes[1].provider_message_id) = 1

C1_Witness == Redelivered /\ last.apps = <<>> /\ BagCardinality(msgs) >= 1

\* Two consecutive webhook deliveries for one counterpart, equal in sender,
\* text and timestamp, both with a provider id, the first stored into an
\* empty message table.
TwoDeliveries ==
    /\ last.op = "webhook_wasender"
    /\ Len(last.nodes) = 1
    /\ Len(last.prev_nodes) = 1
    /\ last.prev_apps = 1
    /\ BagCardinality(last.pre_msgs) = 1
    /\ last.nodes[1].provider_message_id # NONE
    /\ last.prev_nodes[1].provider_message_id # NONE
    /\ last.nodes[1].wa_id = last.prev_nodes[1].wa_id
    /\ last.nodes[1].sender = last.prev_nodes[1].sender
    /\ last.nodes[1].text = last.prev_nodes[1].text
    /\ last.nodes[1].ts = last.prev_nodes[1].ts

\* C2: two payloads equal in sender, text and timestamp with different
\* non-empty provider ids give two stored messages, with equal provider ids
\* one: the provider id, not the structural key, decides duplication.
C2_ProviderIdDecides ==
    TwoDeliveries =>
        IF last.nodes[1].provider_message_id # last.prev_nodes[1].provider_message_id
        THEN BagCardinality(msgs) = 2
        ELSE BagCardinality(msgs) = 1

\* C3: a USER message newer than last_message_at applied to a CLOSED
\* conversation sets status REENGAGEMENT, clears closed_at and adds exactly
\* one to reopened_count.
C3_NewerUserMessageReopens ==
    \A a \in Apps :
        (a.pre.status = "CLOSED" /\ a.sender = "USER" /\ a.ts > a.pre.last_message_at)
        => /\ a.post.status = "REENGAGEMENT"
           /\ a.post.closed_at = NULL
           /\ a.post.reopened_count = a.pre.reopened_count + 1

C3_Witness ==
    \E a \in Apps :
        /\ a.pre.status = "CLOSED" /\ a.sender = "USER" /\ a.ts > a.pre.last_message_at
        /\ a.pre.closed_at # NULL
        /\ a.post.status = "REENGAGEMENT"

\* C4: a USER message older than last_message_at applied to a CLOSED
\* conversation leaves status, closed_at, reopened_count, last_message_at and
\* last_agent_reply_at unchanged, and lowers first_user_message_at when its
\* timestamp is earlier than the recorded one (or none is recorded).
C4_OlderUserMessageDoesNotReopen ==
    \A a \in Apps :
        (a.pre.status = "CLOSED" /\ a.sender = "USER" /\ a.ts < a.pre.last_message_at)
        => /\ a.post.status = "CLOSED"
           /\ a.post.closed_at = a.pre.closed_at
           /\ a.post.reopened_count = a.pre.reopened_count
           /\ a.post.last_message_at = a.pre.last_message_at
           /\ a.post.last_agent_reply_at = a.pre.last_agent_reply_at
           /\ a.post.first_user_message_at =
                  IF a.pre.first_user_message_at = NULL \/ a.ts < a.pre.first_user_message_at
                  THEN a.ts
                  ELSE a.pre.first_user_message_at

C4_Witness ==
    \E a \in Apps :
        /\ a.pre.status = "CLOSED" /\ a.sender = "USER" /\ a.ts < a.pre.last_message_at
        /\ a.pre.first_user_message_at # NULL
        /\ a.ts < a.pre.first_user_message_at
        /\ a.post.first_user_message_at = a.ts

\* C5: in every reachable state each conversation has first_user_message_at <=
\* first_agent_reply_at <= last_agent_reply_at <= last_message_at whenever all
\* four are set.
C5_TimestampChain ==
    \A i \in 1..Len(convs) :
        (/\ convs[i].first_user_message_at # NULL
         /\ convs[i].first_agent_reply_at # NULL
         /\ convs[i].last_agent_reply_at # NULL
         /\ convs[i].last_message_at # NULL)
        => /\ convs[i].first_user_message_at <= convs[i].first_agent_reply_at
           /\ convs[i].first_agent_reply_at <= convs[i].last_agent_reply_at
           /\ convs[i].last_agent_reply_at <= convs[i].last_message_at

\* C6: in every committed state of every conversation risk_flag is true iff
\* risk_reasons is non-empty, whatever operation committed it (the startup
\* seed included).
C6_FlagIffReasons ==
    \A i \in 1..Len(convs) : convs[i].risk_flag <=> (convs[i].risk_reasons # <<>>)

C6_Witness ==
    /\ last.op = "seed_database"
    /\ \E i \in 1..Len(convs) : convs[i].risk_flag /\ Len(convs[i].risk_reasons) >= 2

\* C7: no request lowers last_message_at, none lowers last_agent_reply_at or
\* resets it to None; applying a message with timestamp t leaves
\* last_message_at = max(previous, t) and, for an AGENT message,
\* last_agent_reply_at = max(previous, t).
C7_LastStampsOnlyAdvance ==
    /\ \A i \in 1..Len(last.pre) :
           /\ i <= Len(convs)
           /\ convs[i].last_message_at >= last.pre[i].last_message_at
           /\ last.pre[i].last_agent_reply_at # NULL
              => /\ convs[i].last_agent_reply_at # NULL
                 /\ convs[i].last_agent_reply_at >= last.pre[i].last_agent_reply_at
    /\ \A a \in Apps :
           /\ a.post.last_message_at =
                  IF a.ts > a.pre.last_message_at THEN a.ts ELSE a.pre.last_message_at
           /\ a.sender = "AGENT"
              => a.post.last_agent_reply_at =
                     IF a.pre.last_agent_reply_at = NULL \/ a.ts > a.pre.last_agent_reply_at
                     THEN a.ts
                     ELSE a.pre.last_agent_reply_at

C7_Witness ==
    \E a \in Apps :
        /\ a.sender = "AGENT"
        /\ a.pre.last_agent_reply_at # NULL
        /\ a.ts < a.pre.last_agent_reply_at
        /\ a.ts < a.pre.last_message_at
        /\ a.post.last_agent_reply_at = a.pre.last_agent_reply_at

RiskOrder == <<NoFirstReply, StaleFollowUp, NegativeSentiment, Reopened>>

Has(conv, reason) == \E i \in 1..Len(conv.risk_reasons) : conv.risk_reasons[i] = reason

\* C8: after recalc_risk the reasons are the fixed order NoFirstReply,
\* StaleFollowUp, NegativeSentiment, Reopened restricted to the reasons
\* present (a subsequence without repetition); the result does not depend on
\* the reasons and flag stored before; an immediate second call with the same
\* now changes nothing.
C8_RecalcIdempotentOrdered ==
    last.op = "recalc_risk" =>
        LET conv == convs[1]
            Present(r) == Has(conv, r)
            cleared == [last.pre[1] EXCEPT !.risk_reasons = <<>>, !.risk_flag = FALSE]
        IN  /\ conv.risk_reasons = SelectSeq(RiskOrder, Present)
            /\ conv = _recalc_risk(cleared, now)
            /\ ops = 2 => convs = last.pre

C8_Witness ==
    /\ last.op = "recalc_risk"
    /\ ops = 2
    /\ convs[1].risk_reasons = RiskOrder

\* C9: after recalc_risk(conv, now) the reasons hold NoFirstReply exactly when
\* first_user_message_at is set, first_agent_reply_at is None and more than 15
\* minutes have elapsed since first_user_message_at; StaleFollowUp exactly when
\* the status is CONTACTED, INTERESTED, NEGOTIATION, REENGAGEMENT or SUPPORT,
\* last_agent_reply_at is set and more than 60 minutes have elapsed since it;
\* NegativeSentiment exactly when sentiment_label is NEGATIVE; Reopened exactly
\* when reopened_count > 0.  Elapsed minutes are the real quotient seconds / 60.
C9_ReasonConditions ==
    last.op = "recalc_risk" =>
        LET conv == convs[1]
        IN  /\ Has(conv, NoFirstReply) <=>
                   /\ conv.first_user_message_at # NULL
                   /\ conv.first_agent_reply_at = NULL
                   /\ now - conv.first_user_message_at > 15 * 60
            /\ Has(conv, StaleFollowUp) <=>
                   /\ conv.status \in {"CONTACTED", "INTERESTED", "NEGOTIATION",
                                       "REENGAGEMENT", "SUPPORT"}
                   /\ conv.last_agent_reply_at # NULL
                   /\ now - conv.last_agent_reply_at > 60 * 60
            /\ Has(conv, NegativeSentiment) <=> conv.sentiment_label = "NEGATIVE"
            /\ Has(conv, Reopened) <=> conv.reopened_count > 0

C9_Witness ==
    /\ last.op = "recalc_risk"
    /\ convs[1].status \in {"NEW", "CLOSED"}
    /\ convs[1].last_agent_reply_at # NULL
    /\ now - convs[1].last_agent_reply_at > 60 * 60
    /\ convs[1].risk_reasons = <<NoFirstReply, Reopened>>

\* C10: recalc_risk compares whole minutes, floored and clamped at zero:
\* NoFirstReply is raised iff max(0, floor((now - first_user_message_at) / 60))
\* > 15 and StaleFollowUp iff max(0, floor((now - last_agent_reply_at) / 60))
\* > 60 (the other conditions of the reason holding), so that 15 minutes 30
\* seconds do not exceed the 15-minute threshold.
C10_WholeMinutes ==
    last.op = "recalc_risk" =>
        LET conv == convs[1]
        IN  /\ Has(conv, NoFirstReply) <=>
                   /\ conv.first_user_message_at # NULL
                   /\ conv.first_agent_reply_at = NULL
                   /\ _minutes_between(conv.first_user_message_at, now) > 15
            /\ Has(conv, StaleFollowUp) <=>
                   /\ conv.status \in StaleStatuses
                   /\ conv.last_agent_reply_at # NULL
                   /\ _minutes_between(conv.last_agent_reply_at, now) > 60

\* The timestamps of the stored USER messages of a conversation.
UserStamps(cid) ==
    {m.ts : m \in {x \in BagToSet(msgs) : x.conversation_id = cid /\ x.sender = "USER"}}

\* C11: after any sequence of accepted messages, in any arrival order,
\* first_user_message_at is the minimum timestamp of the USER messages applied
\* to the conversation (None when there is none); an AGENT or BOT message
\* never changes it.
C11_FirstUserIsMinimum ==
    /\ \A i \in 1..Len(convs) :
           convs[i].first_user_message_at =
               IF UserStamps(i) = {} THEN NULL ELSE SetMin(UserStamps(i))
    /\ \A a \in Apps :
           a.sender # "USER" => a.post.first_user_message_at = a.pre.first_user_message_at

C11_Witness ==
    \E a \in Apps :
        /\ a.sender = "USER"
        /\ a.pre.first_user_message_at # NULL
        /\ a.ts < a.pre.first_user_message_at
        /\ Cardinality(UserStamps(a.conv)) >= 2
        /\ convs[a.conv].first_user_message_at = a.ts

\* Both requests of a race have returned.
RaceDone == Len(sessions) = 2 /\ sessions[1].pc = "done" /\ sessions[2].pc = "done"

\* A conversation row after a request's message was applied to it in isolation.
Applied(conv, q) ==
    _recalc_risk(_apply_message_to_conversation(conv, q.sender, q.ts, now), now)

Derived(conv) ==
    <<conv.last_message_at, conv.first_user_message_at, conv.first_agent_reply_at,
      conv.last_agent_reply_at, conv.status, conv.reopened_count, conv.risk_reasons>>

\* C12: two concurrent requests that each append a message to the same
\* existing conversation commit, under every interleaving, the derived fields
\* of one of the two serial orders, and last_message_at does not end below the
\* larger of the two timestamps.
C12_AppendsSerialise ==
    (/\ RaceDone
     /\ sessions[1].appended /\ sessions[2].appended
     /\ sessions[1].cid = sessions[2].cid
     /\ sessions[1].cid <= Len(last.pre)
     /\ <<sessions[1].sender, sessions[1].ts>> # <<sessions[2].sender, sessions[2].ts>>
     /\ (sessions[1].provider_message_id = NONE \/ sessions[2].provider_message_id = NONE))
    => LET a == sessions[1]
           b == sessions[2]
           c0 == last.pre[a.cid]
           conv == convs[a.cid]
       IN  /\ Derived(conv) \in {Derived(Applied(Applied(c0, a), b)),
                                 Derived(Applied(Applied(c0, b), a))}
           /\ conv.last_message_at >= a.ts
           /\ conv.last_message_at >= b.ts

\* C13: a webhook delivery and a history sync that carry the same provider
\* message for the same conversation, not stored before, store it exactly
\* once and apply it once under every interleaving.
C13_DedupIsAtomic ==
    (/\ RaceDone
     /\ sessions[1].kind = "webhook_wasender"
     /\ sessions[2].kind = "get_conversation_detail"
     /\ sessions[1].cid = sessions[2].cid
     /\ sessions[1].sender = sessions[2].sender
     /\ sessions[1].ts = sessions[2].ts
     /\ ~_message_exists(last.pre_msgs, sessions[2].cid, "wasender",
                         sessions[2].provider_message_id, sessions[2].sender,
                         sessions[2].text, sessions[2].ts))
    => /\ Stored(sessions[1].cid, "wasender", sessions[1].provider_message_id) = 1
       /\ sessions[1].appended # sessions[2].appended

\* C14: two concurrent ingestion requests for a counterpart without an open
\* conversation create at most one conversation, and both messages go to it.
C14_OneConversationCreated ==
    (/\ RaceDone
     /\ sessions[1].kind \in {"webhook_wasender", "webhook_mock"}
     /\ sessions[2].kind \in {"webhook_wasender", "webhook_mock"}
     /\ _find_open_conversation(last.pre, RacePhone, PlanOrder) = 0)
    => /\ Len(convs) <= Len(last.pre) + 1
       /\ sessions[1].cid = sessions[2].cid

\* The conversations the last request created.
CreatedByLast == {cid \in 1..Len(convs) : cid > Len(last.pre)}

\* C15: a conversation comes into existence only when a counterpart-authored
\* message arrives: every conversation a request created received a USER
\* message in that request; an agent-authored message or a chat update alone
\* creates none.
C15_CreatedOnInboundOnly ==
    \A cid \in CreatedByLast :
        \E a \in Apps : a.conv = cid /\ a.sender = "USER"

\* The sync has left the page loop.
Fetched == sync.phase \notin {"idle", "fetch"}

\* C16: a history sync requests the pages 1, 2, ... in order, at most
\* wasender_sync_max_pages of them, and none after the first page that
\* returns fewer rows than per_page (an empty page included).
C16_BoundedPageRequests ==
    sync.phase # "idle" =>
        /\ sync.requested = [i \in 1..Len(sync.requested) |-> i]
        /\ Len(sync.requested) <= wasender_sync_max_pages
        /\ \A i \in 1..Len(sync.pages) :
               Len(sync.pages[i]) < PerPage => Len(sync.requested) = i

\* A full page was followed by a short one, which ended the loop.
C16_Witness ==
    /\ Fetched
    /\ sync.requested = <<1, 2>>
    /\ Len(sync.pages) = 2
    /\ Len(sync.pages[1]) = PerPage
    /\ Len(sync.pages[2]) = 1

\* C17: when a page request of a history sync fails (transport error, status
\* >= 400, unparseable response), the sync returns without raising, reports
\* zero imported, stores no message and leaves the conversations as they were.
C17_FailureDegrades ==
    (/\ sync.phase \in {"returned", "raised", "import", "abandoned"}
     /\ \E i \in 1..Len(sync.outcomes) : sync.outcomes[i] \in FailureKinds)
    => /\ sync.phase = "returned"
       /\ sync.imported = 0
       /\ msgs = sync.pre_msgs
       /\ convs = sync.pre

\* The rows of a fetched page that the sync accepts: those of the
\* conversation's counterpart that were not stored when the sync began.
Accepted(page) ==
    LET items == KeepPhone(NormalizeAll(sync.pages[page], now), convs[sync.cid].client)
    IN  {items[i] : i \in {j \in 1..Len(items) :
            ~_message_exists(sync.pre_msgs, sync.cid, "wasender",
                             items[j].provider_message_id, items[j].sender,
                             items[j].text, items[j].ts)}}

AppliedItems == {sync.applied[i] : i \in 1..Len(sync.applied)}

\* C18: after a history sync was abandoned partway through its import, every
\* fetched page has all of its accepted messages stored or none of them.
C18_NoPartialPage ==
    sync.phase = "abandoned" =>
        \A page \in 1..Len(sync.pages) :
            \/ Accepted(page) \subseteq AppliedItems
            \/ Accepted(page) \cap AppliedItems = {}

Ascending(items) ==
    \A i, j \in 1..Len(items) : i < j => items[i].ts <= items[j].ts

\* C19: within one history sync and within one webhook call the accepted
\* messages are applied in ascending timestamp order, whatever the order of
\* the rows or nodes; a history sync applies only rows of the conversation's
\* counterpart.
C19_AppliedAscending ==
    /\ last.op = "webhook_wasender" => Ascending(last.apps)
    /\ Fetched =>
           /\ Ascending(sync.applied)
           /\ \A i \in 1..Len(sync.applied) :
                  sync.applied[i].wa_id = convs[sync.cid].client

\* A sync applied two rows that the remote pages held in descending order,
\* next to a row of another counterpart.
C19_Witness ==
    /\ sync.phase = "returned"
    /\ Len(sync.applied) = 2
    /\ LET rows == Concat(sync.pages)
       IN  /\ \E i, j \in 1..Len(rows) :
                  /\ i < j
                  /\ rows[i].ts > rows[j].ts
                  /\ rows[i] \in AppliedItems
                  /\ rows[j] \in AppliedItems
           /\ \E i \in 1..Len(rows) : rows[i].wa_id # convs[sync.cid].client

\* C20: when the outbound send of a posted AGENT or BOT message fails, the
\* request is answered with an error, no message is stored and the
\* conversation is unchanged; an agent-authored message is stored only by a
\* request whose send step returned without error.
C20_FailedPushStoresNothing ==
    last.op = "add_message" =>
        /\ last.result = "error" =>
               /\ msgs = last.pre_msgs
               /\ convs = last.pre
               /\ last.apps = <<>>
        /\ \A a \in Apps : a.sender \in {"AGENT", "BOT"} => last.result = "ok"

\* A send failed for a message posted to a conversation that holds messages.
C20_Witness ==
    /\ last.op = "add_message"
    /\ last.result = "error"
    /\ last.target \in 1..Len(convs)
    /\ BagCardinality(msgs) >= 1

HighValueTag == "plan_pro"

InTags(conv, tag) == \E i \in 1..Len(conv.tags) : conv.tags[i] = tag

_priority_score_sla_only(conv) ==
    IF Has(conv, NoFirstReply) \/ Has(conv, StaleFollowUp) THEN 40 ELSE 0

\* services.py _priority_score.
_priority_score(conv) ==
    (IF Has(conv, NoFirstReply) \/ Has(conv, StaleFollowUp) THEN 40 ELSE 0)
    + (IF conv.sentiment_label = "NEGATIVE" THEN 30 ELSE 0)
    + (IF conv.reopened_count > 0 THEN 20 ELSE 0)
    + (IF InTags(conv, HighValueTag) THEN 10 ELSE 0)

\* The four terms of the score as the risk reasons and the tags give them.
ScoreOfReasons(conv) ==
    (IF Has(conv, NoFirstReply) \/ Has(conv, StaleFollowUp) THEN 40 ELSE 0)
    + (IF Has(conv, NegativeSentiment) THEN 30 ELSE 0)
    + (IF Has(conv, Reopened) THEN 20 ELSE 0)
    + (IF InTags(conv, HighValueTag) THEN 10 ELSE 0)

C22_NormalizeIdempotent ==
    last.op = "normalize_wa_id" => normalize_wa_id(Str(last.out)) = last.out

\* C23: normalize_wa_id drops everything from the first '@' on and keeps the
\* digits of the rest; when no digit is left it returns the trimmed input
\* unchanged; for None it returns the empty string.
C23_DigitsOrTrimmedInput ==
    (last.op = "normalize_wa_id" /\ last.arg.type = "str")
    => LET digits == digits_of(split_at(last.arg.chars))
       IN  last.out = IF digits # <<>> THEN digits ELSE strip(last.arg.chars)

\* C24: parse_provider_timestamp never raises; it answers `now` for None,
\* for a blank or uninterpretable string and for a non-scalar, reads a number
\* above 10_000_000_000 as milliseconds and a number at or below it as seconds.
C24_TimestampNeverRaises ==
    last.op = "parse_provider_timestamp" =>
        /\ ~last.out.raised
        /\ last.arg.type \in {"None", "dict"} => last.out.ts = now
        /\ (last.arg.type = "str" /\ last.arg.form \in {"blank", "other"}) => last.out.ts = now
        /\ last.arg.type = "int" =>
               last.out.ts = IF last.arg.n > MillisThreshold THEN last.arg.n
                             ELSE 1000 * last.arg.n

\* The payload names a counterpart for the sender the code decides on.
HasIdentifier(payload, default_sender) ==
    normalize_wa_id(IF sender_of(payload, default_sender) = "AGENT" THEN payload.to
                    ELSE payload.from) # <<>>

\* C25: normalize_provider_message never raises; it returns none exactly
\* when the payload is no object, names no counterpart or has no text, and
\* otherwise a record with a non-empty identifier and text, whatever the
\* timestamp field holds.
C25_NormalizeNeverRaises ==
    last.op = "normalize_provider_message" =>
        /\ ~last.out.raised
        /\ last.out.none <=>
               \/ last.arg.type # "dict"
               \/ ~HasIdentifier(last.arg, last.default_sender)
               \/ _extract_text(last.arg.text) = <<>>
        /\ ~last.out.none => last.out.wa_id # <<>> /\ last.out.text # <<>>

FlagsOf(payload) == {payload.fromMe, payload.from_me, payload.key_fromMe}

\* C26: for a payload without a direction string, a flag that is true in
\* some location gives an AGENT message, a flag that is false in some
\* location with none true gives a USER message, whatever the default
\* sender; the default sender is used when no location holds a flag.
C26_ExplicitFlagDecides ==
    (/\ last.op = "normalize_provider_message"
     /\ last.arg.type = "dict"
     /\ last.arg.direction = "absent"
     /\ ~last.out.raised
     /\ ~last.out.none)
    => LET flags == FlagsOf(last.arg)
       IN  /\ "True" \in flags => last.out.sender = "AGENT"
           /\ ("True" \notin flags /\ flags \cap {"False", "'false'"} # {})
                  => last.out.sender = "USER"
           /\ flags = {"absent"} => last.out.sender = last.default_sender

\* C27: stored messages are append-only and immutable: every step of every
\* request keeps each stored message as it is, so the stored messages of a
\* conversation only grow.
C27_MessagesAppendOnly == [][msgs \sqsubseteq msgs']_vars

\* Two stored messages went unchanged through a status patch.
C27_Witness ==
    /\ last.op = "patch_conversation"
    /\ BagCardinality(msgs) >= 2
    /\ msgs = last.pre_msgs

AnalysisFields(conv) == <<conv.sentiment_label, conv.sentiment_score, conv.tags>>

\* C28: sentiment_label, sentiment_score and tags are changed by the analysis
\* step alone: every other request, and every message application, leaves
\* them as they were; an analyze request answered from the cached summary
\* leaves every conversation unchanged.
C28_AnalysisFieldsFrame ==
    /\ last.op # "analyze_conversation" =>
           \A cid \in 1..Len(last.pre) :
               AnalysisFields(convs[cid]) = AnalysisFields(last.pre[cid])
    /\ (last.op = "analyze_conversation" /\ last.result = "cached") => convs = last.pre
    /\ \A a \in Apps : AnalysisFields(a.post) = AnalysisFields(a.pre)

\* A status patch went over a conversation that had been analysed.
C28_Witness ==
    /\ last.op = "patch_conversation"
    /\ \E cid \in 1..Len(last.pre) :
           /\ last.pre[cid].tags # <<>>
           /\ convs[cid].status # last.pre[cid].status

\* The two-tier key of the claim: the later candidate b repeats the earlier
\* candidate a.
SameTwoTier(a, b) ==
    /\ a.wa_id = b.wa_id
    /\ IF b.provider_message_id # NONE
       THEN a.provider_message_id = b.provider_message_id
       ELSE /\ a.provider_message_id = NONE
            /\ a.sender = b.sender /\ a.text = b.text /\ a.ts = b.ts

\* C29: in a webhook batch of two candidates the second is dropped as an
\* in-batch duplicate exactly when the first is of the same counterpart and
\* has the same provider message id or, without an id, the same sender, text
\* and timestamp; candidates of different counterparts are both kept.
C29_BatchKeyIsTwoTier ==
    (last.op = "webhook_wasender" /\ Len(last.nodes) = 2)
    => LET kept == extract_webhook_messages(last.nodes, now)
       IN  /\ (Len(kept) = 1) <=> SameTwoTier(last.nodes[1], last.nodes[2])
           /\ last.nodes[1].wa_id # last.nodes[2].wa_id => Len(kept) = 2

\* The fields a bot-authored message may change.
WithoutStamps(conv) ==
    [conv EXCEPT !.last_message_at = NULL, !.updated_at = NULL,
                 !.risk_flag = FALSE, !.risk_reasons = <<>>]

\* C30: applying a message changes the status only from CLOSED to
\* REENGAGEMENT, and only for a USER message; an AGENT or BOT message leaves
\* status, closed_at and reopened_count alone; a BOT message changes nothing
\* but last_message_at, updated_at and the recomputed risk fields.
C30_OnlyReopenChangesStatus ==
    \A a \in Apps :
        /\ a.post.status # a.pre.status =>
               /\ a.pre.status = "CLOSED"
               /\ a.post.status = "REENGAGEMENT"
               /\ a.sender = "USER"
        /\ a.sender \in {"AGENT", "BOT"} =>
               /\ a.post.status = a.pre.status
               /\ a.post.closed_at = a.pre.closed_at
               /\ a.post.reopened_count = a.pre.reopened_count
        /\ a.sender = "BOT" => WithoutStamps(a.post) = WithoutStamps(a.pre)

\* A bot message, the newest of a closed conversation, was applied.
C30_Witness ==
    \E a \in Apps :
        /\ a.sender = "BOT"
        /\ a.pre.status = "CLOSED"
        /\ a.ts >= a.pre.last_message_at
        /\ a.post.last_message_at = a.ts

\* The positions of a JSON value that lie behind list elements and non-null
\* wrapper-key values only, whatever their depth.
RECURSIVE Positions(_)
Positions(value) ==
    {<<>>} \cup
    (IF value.type = "list"
     THEN UNION {{<<IndexNames[i]>> \o p : p \in Positions(value.elems[i])} :
                    i \in 1..Len(value.elems)}
     ELSE IF value.type = "dict"
     THEN UNION {{<<key>> \o p : p \in Positions(value.items[key])} :
                    key \in {k \in DOMAIN value.items :
                                /\ \E i \in 1..Len(wrapper_keys) : wrapper_keys[i] = k
                                /\ value.items[k] # None}}
     ELSE {})

RECURSIVE NodeAt(_, _)
NodeAt(value, path) ==
    IF path = <<>> THEN value
    ELSE IF value.type = "list"
    THEN NodeAt(value.elems[CHOOSE i \in 1..Len(IndexNames) : IndexNames[i] = Head(path)],
                Tail(path))
    ELSE NodeAt(value.items[Head(path)], Tail(path))

IsMarked(value) ==
    /\ value.type = "dict"
    /\ \E key \in value.keys \cup DOMAIN value.items : key \in marker_keys

WalkCalls == {last.calls[i] : i \in 1..Len(last.calls)}

\* C31: the walker makes at most one call per position of the envelope (so it
\* ends, with a finite sequence), handles no node deeper than 6 levels, returns
\* at once from a call at level 7 (no error), yields a node exactly when it is
\* a handled object holding a marker key, and once it has ended it has reached
\* every position of depth <= 7 behind wrapper keys and list elements, behind
\* yielded and not yielded objects alike.
C31_WalkerBoundedAndComplete ==
    last.op = "_message_nodes" =>
        /\ \A call \in WalkCalls :
               /\ call.outcome # "abandoned" => Len(call.path) <= 6
               /\ call.outcome = "abandoned" => Len(call.path) = 7
               /\ call.outcome = "yielded" <=>
                      (Len(call.path) <= 6 /\ IsMarked(NodeAt(last.envelope, call.path)))
        /\ Len(last.calls) + Len(last.stack) <= Cardinality(Positions(last.envelope))
        /\ Len(last.yielded) = Cardinality({i \in 1..Len(last.calls) :
                                               last.calls[i].outcome = "yielded"})
        /\ last.stack = <<>> =>
               /\ {call.path : call \in WalkCalls} =
                      {p \in Positions(last.envelope) : Len(p) <= 7}
               /\ Cardinality(WalkCalls) = Len(last.calls)

\* A walk that has ended, passed the root without yielding it, yielded a node
\* at level 6 and abandoned a branch at level 7.
C31_Witness ==
    /\ last.op = "_message_nodes"
    /\ last.stack = <<>>
    /\ \E call \in WalkCalls : call.outcome = "passed" /\ call.path = <<>>
    /\ \E call \in WalkCalls : call.outcome = "yielded" /\ Len(call.path) = 6
    /\ \E call \in WalkCalls : call.outcome = "abandoned"

\* The provider nodes of the last request whose provider message id was
\* already stored, before the request, in a conversation of their counterpart.
RedeliveredNodes ==
    {i \in 1..Len(last.nodes) :
        /\ last.nodes[i].provider_message_id # NONE
        /\ \E m \in BagToSet(last.pre_msgs) :
               /\ m.provider = "wasender"
               /\ m.provider_message_id = last.nodes[i].provider_message_id
               /\ last.pre[m.conversation_id].client = last.nodes[i].wa_id}

\* C32: the conversations of one counterpart never hold two stored messages
\* with the same provider and the same non-empty provider message id; so a
\* provider webhook that only re-delivers messages already stored for their
\* counterpart (whether the conversation holding them was closed since or
\* not) stores no message and creates no conversation.
C32_RedeliveryStoresNoSecondCopy ==
    (/\ last.op = "webhook_wasender"
     /\ last.nodes # <<>>
     /\ RedeliveredNodes = 1..Len(last.nodes))
        => (msgs = last.pre_msgs /\ Len(convs) = Len(last.pre))

\* The conversations of a counterpart that are not closed.
OpenOf(client) == {i \in 1..Len(convs) : convs[i].client = client /\ convs[i].status # "CLOSED"}

\* C33: after any sequence of webhook deliveries, chat updates, posted
\* messages and status patches handled one after the other, a counterpart has
\* at most one conversation that is not CLOSED.
C33_OneOpenConversation ==
    \A i \in 1..Len(convs) : Cardinality(OpenOf(convs[i].client)) <= 1

StampFields(conv) ==
    <<conv.first_user_message_at, conv.first_agent_reply_at, conv.last_agent_reply_at,
      conv.last_message_at>>

\* C34: two messages appended to the same open conversation leave the same
\* first_user_message_at, first_agent_reply_at, last_agent_reply_at and
\* last_message_at in either order of arrival.
C34_ArrivalOrderIrrelevant ==
    (/\ last.op = "order"
     /\ last.appended.forward = 2
     /\ last.appended.backward = 2)
        => StampFields(last.forward.convs[1]) = StampFields(last.backward.convs[1])

\* C35: in every reachable state of every conversation, first_agent_reply_at
\* is set only if first_user_message_at and last_agent_reply_at are set,
\* first_agent_reply_at <= last_agent_reply_at when both are set, and
\* last_agent_reply_at <= last_message_at when last_agent_reply_at is set.
C35_AgentReplyStampsOrdered ==
    \A i \in 1..Len(convs) :
        LET conv == convs[i]
        IN  /\ conv.first_agent_reply_at # NULL =>
                   (conv.first_user_message_at # NULL /\ conv.last_agent_reply_at # NULL)
            /\ (conv.first_agent_reply_at # NULL /\ conv.last_agent_reply_at # NULL) =>
                   conv.first_agent_reply_at <= conv.last_agent_reply_at
            /\ conv.last_agent_reply_at # NULL =>
                   (conv.last_message_at # NULL /\ conv.last_agent_reply_at <= conv.last_message_at)

\* A conversation whose first agent reply is older than its last one, which
\* is not newer than its last message.
C35_Witness ==
    \E i \in 1..Len(convs) :
        /\ convs[i].first_agent_reply_at # NULL
        /\ convs[i].first_agent_reply_at < convs[i].last_agent_reply_at
        /\ convs[i].last_agent_reply_at <= convs[i].last_message_at

CountsOneReopening(i) ==
    \/ convs'[i].reopened_count = convs[i].reopened_count
    \/ /\ convs[i].status = "CLOSED"
       /\ convs'[i].status # "CLOSED"
       /\ convs'[i].reopened_count = convs[i].reopened_count + 1

\* C37: reopened_count never decreases and changes only in a step that takes
\* the conversation from CLOSED to another status, by exactly one; and a
\* conversation that has been reopened carries the reason Reopened and a true
\* risk flag in every committed state.
C37_ReopenedCountMonotonic ==
    /\ [][\A i \in 1..Len(convs) : i <= Len(convs') /\ CountsOneReopening(i)]_vars
    /\ [](\A i \in 1..Len(convs) :
              convs[i].reopened_count > 0 => (Has(convs[i], Reopened) /\ convs[i].risk_flag))

\* A status patch has just reopened a closed conversation: its counter went
\* up by one and the reason is reported.
C37_Witness ==
    /\ last.op = "patch_conversation"
    /\ last.pre[last.target].status = "CLOSED"
    /\ convs[last.target].status # "CLOSED"
    /\ convs[last.target].reopened_count = last.pre[last.target].reopened_count + 1
    /\ Has(convs[last.target], Reopened)

OutsideRisk(conv) ==
    [conv EXCEPT !.risk_flag = FALSE, !.risk_reasons = <<>>, !.updated_at = NULL]

\* C39: the risk refresh sweep of a listing stores and deletes no message and
\* no conversation, leaves every field of every conversation but risk_flag,
\* risk_reasons and updated_at as it was, and leaves a conversation whose flag
\* and reasons come out as stored entirely as it was, updated_at included.
C39_SweepFrame ==
    last.op = "list_conversations" =>
        /\ msgs = last.pre_msgs
        /\ Len(convs) = Len(last.pre)
        /\ \A i \in 1..Len(convs) :
               /\ OutsideRisk(convs[i]) = OutsideRisk(last.pre[i])
               /\ (/\ convs[i].risk_flag = last.pre[i].risk_flag
                   /\ convs[i].risk_reasons = last.pre[i].risk_reasons)
                      => convs[i] = last.pre[i]

\* A sweep that has just raised the flag of a conversation (the first reply
\* became overdue) and stamped its updated_at.
C39_Witness ==
    /\ last.op = "list_conversations"
    /\ \E i \in 1..Len(convs) :
           /\ ~last.pre[i].risk_flag
           /\ convs[i].risk_flag
           /\ Has(convs[i], NoFirstReply)
           /\ convs[i].updated_at > last.pre[i].updated_at

\* The counterparts of the message nodes of the last request of which every
\* conversation was CLOSED before the request (and there was one).
AllClosedBefore ==
    {last.nodes[n].wa_id : n \in 1..Len(last.nodes)} \cap
    {client \in {last.pre[i].client : i \in 1..Len(last.pre)} :
        \A i \in 1..Len(last.pre) : last.pre[i].client = client => last.pre[i].status = "CLOSED"}

\* C40: a provider webhook never appends a message to a conversation that is
\* CLOSED at that moment and changes no status, closed_at or reopened_count of
\* a conversation that was CLOSED before it; the message of a counterpart
\* whose conversations were all CLOSED is stored in a conversation the request
\* has created, which has status NEW.
C40_WebhookNeverReopens ==
    last.op = "webhook_wasender" =>
        /\ \A a \in Apps : a.pre.status # "CLOSED"
        /\ \A i \in 1..Len(last.pre) :
               last.pre[i].status = "CLOSED" =>
                   /\ convs[i].status = "CLOSED"
                   /\ convs[i].closed_at = last.pre[i].closed_at
                   /\ convs[i].reopened_count = last.pre[i].reopened_count
        /\ \A client \in AllClosedBefore :
               \E a \in Apps :
                   /\ a.conv > Len(last.pre)
                   /\ convs[a.conv].client = client
                   /\ convs[a.conv].status = "NEW"
                   /\ \E m \in BagToSet(msgs) : m.conversation_id = a.conv

\* A provider webhook has just delivered a message of a counterpart whose
\* only conversation was CLOSED: a second conversation holds it.
C40_Witness ==
    /\ last.op = "webhook_wasender"
    /\ AllClosedBefore # {}
    /\ Len(convs) = Len(last.pre) + 1
    /\ \E a \in Apps : a.conv = Len(convs) /\ a.sender = "USER"
    /\ convs[1].status = "CLOSED"
====
